---- MODULE Spec2Model ----
(***************************************************************************)
(* SkyVision backend: the retrieval query planner of                       *)
(* backend/app/queries.py (search_airports_by_text,                        *)
(* search_airlines_by_image and their helpers) together with the meaning   *)
(* MariaDB gives to the statement it builds (WHERE, ORDER BY, LIMIT).      *)
(*                                                                         *)
(* Text is modelled at character level: a Python str or an SQL string is a *)
(* sequence of one-character strings, so that lower(), strip(), the        *)
(* [a-zA-Z]+ tokenizer, Python's `in` and SQL's LIKE are computed the way  *)
(* the code computes them.  An SQL statement is the sequence of its        *)
(* lexical tokens; the bound parameters are a separate sequence.           *)
(***************************************************************************)
EXTENDS Integers, Sequences, FiniteSets, TLC

\* The state of a call of queries.py
VARIABLES pc, req, plan, tbl, rows, err

\* The state of a request in routers/search.py
VARIABLES rpc, body, t_vec, i_vec, calls, encoded, norm, storage_arg, db_rows, resp, failure

queryVars == <<pc, req, plan, tbl, rows, err>>

routerVars ==
    <<rpc, body, t_vec, i_vec, calls, encoded, norm, storage_arg, db_rows, resp, failure>>

\* The process: its settings, the database, the module-level _model of
\* embeddings.py and _pool of db.py, and the requests its worker threads serve
VARIABLES env, db_up, _model, _pool, constructed, pools_made, th

\* utils/metrics.py: _store, _lock and the calls in progress
VARIABLES _store, _lock, mth, arrived, issued

\* Calls of search_airports_by_text in progress side by side
VARIABLES builders

serviceVars == <<env, db_up, _model, _pool, constructed, pools_made, th>>

metricsVars == <<_store, _lock, mth, arrived, issued>>

planVars == <<builders>>

vars ==
    <<pc, req, plan, tbl, rows, err,
      rpc, body, t_vec, i_vec, calls, encoded, norm, storage_arg, db_rows, resp, failure,
      env, db_up, _model, _pool, constructed, pools_made, th,
      _store, _lock, mth, arrived, issued,
      builders>>

(***************************************************************************)
(* Characters and strings                                                  *)
(***************************************************************************)

\* SQL NULL / Python None for a string-valued column or argument.
NULL == <<"NULL">>

LowerCase == <<"a","b","c","d","e","f","g","h","i","j","k","l","m",
               "n","o","p","q","r","s","t","u","v","w","x","y","z">>

UpperCase == <<"A","B","C","D","E","F","G","H","I","J","K","L","M",
               "N","O","P","Q","R","S","T","U","V","W","X","Y","Z">>

Range(s) == { s[i] : i \in DOMAIN s }

Letters == Range(LowerCase) \cup Range(UpperCase)

\* str.isspace() on the characters of the model
Whitespace == { " ", "\t" }

\* str.lower() / SQL LOWER() on one character
ToLower ==
    [c \in Range(UpperCase) |-> LowerCase[CHOOSE i \in DOMAIN UpperCase : UpperCase[i] = c]]

LowerChar(c) == IF c \in DOMAIN ToLower THEN ToLower[c] ELSE c

\* str.lower() / SQL LOWER(): NULL stays NULL
Lower(s) == IF s = NULL THEN NULL ELSE [i \in DOMAIN s |-> LowerChar(s[i])]

\* str.strip(): leading and trailing whitespace removed
RECURSIVE LStrip(_)
LStrip(s) == IF s # <<>> /\ Head(s) \in Whitespace THEN LStrip(Tail(s)) ELSE s

RECURSIVE RStrip(_)
RStrip(s) ==
    IF s # <<>> /\ s[Len(s)] \in Whitespace
    THEN RStrip(SubSeq(s, 1, Len(s) - 1))
    ELSE s

Strip(s) == RStrip(LStrip(s))

\* Python `p in s` for two strings
Contains(s, p) ==
    \E i \in 0 .. (Len(s) - Len(p)) : SubSeq(s, i + 1, i + Len(p)) = p

\* The characters of the model in ASCII order; CharCode(c) is order-isomorphic
\* to the code point of c on them.
Alphabet ==
    <<"\t", " ", "!", ",", "-">> \o UpperCase \o <<"[", "]", "_">> \o LowerCase

CharCode(c) == CHOOSE i \in DOMAIN Alphabet : Alphabet[i] = c

\* s < t in lexicographic code-point order (Python str comparison)
RECURSIVE StrLess(_, _)
StrLess(s, t) ==
    IF t = <<>> THEN FALSE
    ELSE IF s = <<>> THEN TRUE
    ELSE IF Head(s) # Head(t) THEN CharCode(Head(s)) < CharCode(Head(t))
    ELSE StrLess(Tail(s), Tail(t))

StrLeq(s, t) == s = t \/ StrLess(s, t)

\* sorted(S) for a finite set of strings
RECURSIVE SortedStrings(_)
SortedStrings(S) ==
    IF S = {} THEN <<>>
    ELSE LET m == CHOOSE x \in S : \A y \in S : StrLeq(x, y)
         IN  <<m>> \o SortedStrings(S \ {m})

(***************************************************************************)
(* Keyword and region detection                                            *)
(***************************************************************************)

_KEYWORD_WHITELIST ==
    { <<"i","n","d","o","o","r">>,
      <<"g","a","r","d","e","n">>,
      <<"g","a","r","d","e","n","s">>,
      <<"g","r","e","e","n","e","r","y">>,
      <<"t","r","e","e","s">>,
      <<"p","l","a","n","t","s">>,
      <<"g","l","a","s","s">>,
      <<"m","o","d","e","r","n">>,
      <<"c","l","a","s","s","i","c">>,
      <<"v","a","u","l","t">>,
      <<"a","r","c","h","e","d">>,
      <<"a","r","c","h","e","s">>,
      <<"w","o","o","d">>,
      <<"b","a","m","b","o","o">>,
      <<"f","a","b","r","i","c">>,
      <<"c","u","r","v","e","d">>,
      <<"c","o","l","o","r">>,
      <<"b","r","i","g","h","t">>,
      <<"l","o","t","u","s">>,
      <<"h","e","r","i","t","a","g","e">>,
      <<"s","p","a","c","i","o","u","s">>,
      <<"a","r","t">>,
      <<"b","i","o","p","h","i","l","i","c">>,
      <<"b","e","a","u","t","i","f","u","l">>,
      <<"f","a","c","a","d","e">>,
      <<"f","a","c","a","d","e","s">> }

\* An ordered mapping (a Python dict keeps its declaration order).
_REGION_KEYWORDS ==
    << [region |-> <<"a","s","i","a">>,
        countries |-> << <<"i","n","d","i","a">>,
                       <<"c","h","i","n","a">>,
                       <<"j","a","p","a","n">>,
                       <<"s","i","n","g","a","p","o","r","e">>,
                       <<"u","a","e">>,
                       <<"i","n","d","o","n","e","s","i","a">>,
                       <<"k","o","r","e","a">>,
                       <<"t","h","a","i","l","a","n","d">>,
                       <<"q","a","t","a","r">> >>],
       [region |-> <<"e","u","r","o","p","e">>,
        countries |-> << <<"f","r","a","n","c","e">>,
                       <<"u","k">>,
                       <<"g","e","r","m","a","n","y">>,
                       <<"i","t","a","l","y">>,
                       <<"s","w","i","t","z","e","r","l","a","n","d">>,
                       <<"s","p","a","i","n">>,
                       <<"n","e","t","h","e","r","l","a","n","d","s">>,
                       <<"t","u","r","k","e","y">> >>],
       [region |-> <<"a","f","r","i","c","a">>,
        countries |-> << <<"s","o","u","t","h"," ","a","f","r","i","c","a">>,
                       <<"e","g","y","p","t">>,
                       <<"e","t","h","i","o","p","i","a">>,
                       <<"m","o","r","o","c","c","o">> >>],
       [region |-> <<"a","m","e","r","i","c","a">>,
        countries |-> << <<"u","s","a">>,
                       <<"c","a","n","a","d","a">>,
                       <<"m","e","x","i","c","o">>,
                       <<"b","r","a","z","i","l">> >>],
       [region |-> <<"o","c","e","a","n","i","a">>,
        countries |-> << <<"a","u","s","t","r","a","l","i","a">>,
                       <<"n","e","w"," ","z","e","a","l","a","n","d">> >>] >>

\* Python None where a list is expected.
None == << <<"None">> >>

\* (q or ""): None and the empty string both give ""
OrEmpty(q) == IF q = NULL THEN <<>> ELSE q

\* re.findall(r"[a-zA-Z]+", s): the maximal runs of ASCII letters, in order.
\* cur is the run being read.
RECURSIVE FindLetterRuns(_, _)
FindLetterRuns(s, cur) ==
    IF s = <<>> THEN (IF cur = <<>> THEN <<>> ELSE <<cur>>)
    ELSE IF Head(s) \in Letters THEN FindLetterRuns(Tail(s), Append(cur, Head(s)))
    ELSE (IF cur = <<>> THEN <<>> ELSE <<cur>>) \o FindLetterRuns(Tail(s), <<>>)

\* The whitelisted tokens as they stand in the text, neither sorted nor made
\* unique
_extract_keywords_in_text_order(q) ==
    SelectSeq(FindLetterRuns(Lower(OrEmpty(q)), <<>>), LAMBDA t : t \in _KEYWORD_WHITELIST)

_extract_keywords(q) ==
    LET toks == FindLetterRuns(Lower(OrEmpty(q)), <<>>)
    IN  SortedStrings({ t \in Range(toks) : t \in _KEYWORD_WHITELIST })

\* The loop over _REGION_KEYWORDS.items() from entry i on.
RECURSIVE DetectFrom(_, _)
DetectFrom(q_lower, i) ==
    IF i > Len(_REGION_KEYWORDS) THEN None
    ELSE LET e == _REGION_KEYWORDS[i]
         IN  IF Contains(q_lower, e.region)
                \/ \E j \in DOMAIN e.countries : Contains(q_lower, e.countries[j])
             THEN e.countries
             ELSE DetectFrom(q_lower, i + 1)

\* The region declared last among those that match
RECURSIVE DetectLastFrom(_, _)
DetectLastFrom(q_lower, i) ==
    IF i < 1 THEN None
    ELSE LET e == _REGION_KEYWORDS[i]
         IN  IF Contains(q_lower, e.region)
                \/ \E j \in DOMAIN e.countries : Contains(q_lower, e.countries[j])
             THEN e.countries
             ELSE DetectLastFrom(q_lower, i - 1)

_detect_region_last_match(q) == DetectLastFrom(Lower(OrEmpty(q)), Len(_REGION_KEYWORDS))

_detect_region(q) == DetectFrom(Lower(OrEmpty(q)), 1)

\* bool(x) of an Optional[List]
Truthy(l) == l # None /\ l # <<>>

(***************************************************************************)
(* Python values                                                           *)
(***************************************************************************)

\* A value of type Any (a filter value, a bound parameter): a str, a bool or
\* None.
Str(s) == [t |-> "str", s |-> s, b |-> FALSE]

Bool(b) == [t |-> "bool", s |-> <<>>, b |-> b]

PyNone == [t |-> "none", s |-> <<>>, b |-> FALSE]

\* bool(v): "" , False and None are falsy
PyTruthy(v) ==
    CASE v.t = "str" -> v.s # <<>>
      [] v.t = "bool" -> v.b
      [] OTHER -> FALSE

\* d.get(key) of a dict d (a function from its keys)
Get(d, key) == IF key \in DOMAIN d THEN d[key] ELSE PyNone

\* An Optional[Dict] is <<>> for None and <<d>> for the dict d.
\* `not filters`: None or the empty dict
NotFilters(filters) == filters = <<>> \/ DOMAIN filters[1] = {}

(***************************************************************************)
(* Statement building (queries.py)                                         *)
(***************************************************************************)

\* settings.VECTOR_DISTANCE_FN
VECTOR_DISTANCE_FN == "VEC_DISTANCE_COSINE"

\* `"WHERE" in sql.upper()`: no other token of a statement holds the word.
HasWhere(sql) == "WHERE" \in Range(sql)

\* One step of _apply_filters: `if filters.get(key): clauses.append(clause)`
\* and, for a clause with a placeholder, `params.append(filters[key])`.
FilterClause(d, key, clause, bind) ==
    IF PyTruthy(Get(d, key))
    THEN [clauses |-> <<clause>>, params |-> IF bind THEN <<d[key]>> ELSE <<>>]
    ELSE [clauses |-> <<>>, params |-> <<>>]

\* The concatenation of a sequence of sequences (list.extend in a loop)
RECURSIVE Concat(_)
Concat(parts) == IF parts = <<>> THEN <<>> ELSE Head(parts) \o Concat(Tail(parts))

\* sep.join(parts), each part a token sequence
RECURSIVE Join(_, _)
Join(parts, sep) ==
    IF parts = <<>> THEN <<>>
    ELSE IF Len(parts) = 1 THEN parts[1]
    ELSE parts[1] \o <<sep>> \o Join(Tail(parts), sep)

\* WHERE appended even when no clause was collected
EmitWhere_unguarded(base_sql, clauses) ==
    base_sql \o <<"WHERE">> \o Join([i \in DOMAIN clauses |-> <<clauses[i]>>], "AND")

\* The tail of _apply_filters: `if clauses: base_sql += " WHERE " + " AND ".join(clauses)`
EmitWhere(base_sql, clauses) ==
    IF clauses # <<>>
    THEN base_sql \o <<"WHERE">> \o Join([i \in DOMAIN clauses |-> <<clauses[i]>>], "AND")
    ELSE base_sql

_apply_filters(base_sql, filters, params) ==
    IF NotFilters(filters) THEN [sql |-> base_sql, params |-> params]
    ELSE LET d  == filters[1]
             c1 == FilterClause(d, "country", "LOWER(country) = LOWER(?)", TRUE)
             c2 == FilterClause(d, "city", "LOWER(city) = LOWER(?)", TRUE)
             c3 == FilterClause(d, "style",
                                "LOWER(JSON_VALUE(metadata, '$.style')) = LOWER(?)", TRUE)
             c4 == FilterClause(d, "has_image",
                                "(image_url IS NOT NULL AND image_url <> '')", FALSE)
             c5 == FilterClause(d, "has_logo",
                                "(logo_url IS NOT NULL AND logo_url <> '')", FALSE)
             clauses == c1.clauses \o c2.clauses \o c3.clauses \o c4.clauses \o c5.clauses
         IN  [sql |-> EmitWhere(base_sql, clauses),
              params |-> params \o c1.params \o c2.params \o c3.params]

\* A float of the query vector is one of these; the last three are not finite.
Floats == { "0.0", "1.0", "nan", "inf", "-inf" }

\* math.isfinite(float(x))
IsFinite(x) == x \notin { "nan", "inf", "-inf" }

\* "[" + ",".join(map(str, cleaned)) + "]" as the string of its number and
\* punctuation tokens
_vec_text(vec_list) ==
    LET cleaned == [i \in DOMAIN vec_list |->
                      IF IsFinite(vec_list[i]) THEN vec_list[i] ELSE "0.0"]
    IN  <<"[">> \o Join([i \in DOMAIN cleaned |-> <<cleaned[i]>>], ",") \o <<"]">>

\* f"{fn}(embedding, VEC_FromText(?))"
_distance_expr == <<VECTOR_DISTANCE_FN, "(embedding, VEC_FromText(?))">>

\* f"%{kw}%"
LikePattern(kw) == <<"%">> \o kw \o <<"%">>

\* The two LIKE tests of one keyword, in parentheses.
KeywordPart ==
    << "(", "LOWER(JSON_VALUE(metadata, '$.style')) LIKE LOWER(?)", "OR",
       "LOWER(JSON_EXTRACT(metadata, '$.tags')) LIKE LOWER(?)", ")" >>

\* The keyword tests joined with AND: every keyword must match
KeywordJoin_and(parts) == Join(parts, "AND")

\* " OR ".join(parts)
KeywordJoin(parts) == Join(parts, "OR")

_keyword_hit_sql_and_params(keywords) ==
    IF keywords = <<>> THEN [sql |-> <<"0">>, params |-> <<>>]
    ELSE [sql |-> <<"(">> \o KeywordJoin([i \in DOMAIN keywords |-> KeywordPart])
                   \o <<")">>,
          params |-> Concat([i \in DOMAIN keywords |->
                               << Str(LikePattern(keywords[i])),
                                  Str(LikePattern(keywords[i])) >>])]

\* A region search whenever a region is detected, keywords or not
IsRegionSearch_ignoring_keywords(region_countries, keywords) ==
    Truthy(region_countries)

\* is_region_search = bool(region_countries) and not bool(keywords)
IsRegionSearch(region_countries, keywords) ==
    Truthy(region_countries) /\ ~(keywords # <<>>)

\* The vector bound in both shapes, also where the statement has no `?` for it
AirportsSelect_always_binds_vector(is_region_search, vec) ==
    IF is_region_search
    THEN [sql |-> << "SELECT id, name, city, country, image_url, metadata,",
                     "0.0 AS distance", "FROM airports" >>,
          params |-> << Str(_vec_text(vec)) >>]
    ELSE [sql |-> << "SELECT id, name, city, country, image_url, metadata," >>
                   \o _distance_expr \o << "AS distance", "FROM airports" >>,
          params |-> << Str(_vec_text(vec)) >>]

\* The SELECT list and FROM of search_airports_by_text in its two shapes
AirportsSelect(is_region_search, vec) ==
    IF is_region_search
    THEN [sql |-> << "SELECT id, name, city, country, image_url, metadata,",
                     "0.0 AS distance", "FROM airports" >>,
          params |-> <<>>]
    ELSE [sql |-> << "SELECT id, name, city, country, image_url, metadata," >>
                   \o _distance_expr \o << "AS distance", "FROM airports" >>,
          params |-> << Str(_vec_text(vec)) >>]

\* `if keywords:` the keyword group joined with AND or opened with WHERE
ApplyKeywords(p, keywords) ==
    IF keywords # <<>>
    THEN LET kw == _keyword_hit_sql_and_params(keywords)
         IN  [sql |-> p.sql \o << IF HasWhere(p.sql) THEN "AND" ELSE "WHERE", "(" >>
                       \o kw.sql \o << ")" >>,
              params |-> p.params \o kw.params]
    ELSE p

\* The region group always joined with AND, whether or not a WHERE is open
ApplyRegion_always_and(p, region_countries) ==
    IF Truthy(region_countries)
    THEN [sql |-> p.sql \o << "AND", "(" >>
                   \o Join([i \in DOMAIN region_countries |->
                              << "LOWER(country) LIKE LOWER(?)" >>], "OR")
                   \o << ")" >>,
          params |-> p.params
                      \o [i \in DOMAIN region_countries |-> Str(region_countries[i])]]
    ELSE p

\* `if region_countries:` one LIKE per country of the region, joined with OR
ApplyRegion(p, region_countries) ==
    IF Truthy(region_countries)
    THEN LET region_clause ==
                 Join([i \in DOMAIN region_countries |->
                         << "LOWER(country) LIKE LOWER(?)" >>], "OR")
         IN  [sql |-> p.sql \o << IF HasWhere(p.sql) THEN "AND" ELSE "WHERE", "(" >>
                       \o region_clause \o << ")" >>,
              params |-> p.params
                          \o [i \in DOMAIN region_countries |-> Str(region_countries[i])]]
    ELSE p

\* The ORDER BY of the two shapes without any LIMIT
AirportsOrder_without_limit(is_region_search) ==
    IF is_region_search
    THEN << "ORDER BY", "(image_url IS NULL OR image_url='') ASC", ",", "name ASC" >>
    ELSE << "ORDER BY", "(image_url IS NULL OR image_url='') ASC", ",", "distance ASC" >>

\* Both shapes ordered by name
AirportsOrder_by_name(is_region_search) ==
    << "ORDER BY", "(image_url IS NULL OR image_url='') ASC", ",", "name ASC",
       "LIMIT 1000" >>

\* Both shapes ordered by distance
AirportsOrder_by_distance(is_region_search) ==
    << "ORDER BY", "(image_url IS NULL OR image_url='') ASC", ",", "distance ASC",
       "LIMIT 1000" >>

\* Both shapes ordered by image presence alone
AirportsOrder_first_key_only(is_region_search) ==
    << "ORDER BY", "(image_url IS NULL OR image_url='') ASC", "LIMIT 1000" >>

\* ORDER BY and LIMIT of search_airports_by_text
AirportsOrder(is_region_search) ==
    IF is_region_search
    THEN << "ORDER BY", "(image_url IS NULL OR image_url='') ASC", ",", "name ASC",
            "LIMIT 1000" >>
    ELSE << "ORDER BY", "(image_url IS NULL OR image_url='') ASC", ",", "distance ASC",
            "LIMIT 1000" >>

\* The statement and parameters search_airports_by_text hands to cur.execute
AirportsStatement(vec, k, filters, query_text) ==
    LET q_text           == Lower(Strip(OrEmpty(query_text)))
        keywords         == _extract_keywords(q_text)
        region_countries == _detect_region(q_text)
        is_region_search == IsRegionSearch(region_countries, keywords)
        selected == AirportsSelect(is_region_search, vec)
        filtered == _apply_filters(selected.sql, filters, selected.params)
        withKw   == ApplyKeywords(filtered, keywords)
        withReg  == ApplyRegion(withKw, region_countries)
    IN  [sql |-> withReg.sql \o AirportsOrder(is_region_search),
         params |-> withReg.params]

\* The vector appended after the parameters of the filters, although its
\* `?` comes first in the text
AirlinesStatement_vector_last(vec, k, filters) ==
    LET filtered == _apply_filters(
                        << "SELECT id, name, iata, icao, logo_url, metadata," >>
                           \o _distance_expr \o << "AS distance", "FROM airlines" >>,
                        filters, <<>>)
    IN  [sql |-> filtered.sql
                  \o << "ORDER BY", "(logo_url IS NULL OR logo_url='') ASC", ",",
                        "distance ASC", "LIMIT 1000" >>,
         params |-> filtered.params \o << Str(_vec_text(vec)) >>]

\* The statement and parameters search_airlines_by_image hands to cur.execute
AirlinesStatement(vec, k, filters) ==
    LET filtered == _apply_filters(
                        << "SELECT id, name, iata, icao, logo_url, metadata," >>
                           \o _distance_expr \o << "AS distance", "FROM airlines" >>,
                        filters, <<>>)
    IN  [sql |-> filtered.sql
                  \o << "ORDER BY", "(logo_url IS NULL OR logo_url='') ASC", ",",
                        "distance ASC", "LIMIT 1000" >>,
         params |-> << Str(_vec_text(vec)) >> \o filtered.params]

(***************************************************************************)
(* What MariaDB does with the statement: cur.execute(sql, params) and      *)
(* cur.fetchall().  A table is a bag of rows: tbl.rows maps each distinct  *)
(* row (its columns other than id) to the number of rows of the table that *)
(* carry exactly these column values.                                      *)
(***************************************************************************)

\* The columns load_to_mariadb.py inserts into each table
TableColumns(name) ==
    IF name = "airports"
    THEN { "id", "name", "city", "country", "iata", "icao", "latitude", "longitude",
           "image_url", "metadata", "embedding" }
    ELSE { "id", "name", "alias", "iata", "icao", "callsign", "country", "active",
           "logo_url", "metadata", "embedding" }

\* The table a statement reads
TableOf(sql) == IF "FROM airports" \in Range(sql) THEN "airports" ELSE "airlines"

\* The columns a token of a statement names
TokenColumns(tok) ==
    CASE tok = "SELECT id, name, city, country, image_url, metadata,"
           -> { "id", "name", "city", "country", "image_url", "metadata" }
      [] tok = "SELECT id, name, iata, icao, logo_url, metadata,"
           -> { "id", "name", "iata", "icao", "logo_url", "metadata" }
      [] tok = "(embedding, VEC_FromText(?))" -> { "embedding" }
      [] tok \in { "LOWER(country) = LOWER(?)", "LOWER(country) LIKE LOWER(?)" }
           -> { "country" }
      [] tok = "LOWER(city) = LOWER(?)" -> { "city" }
      [] tok \in { "LOWER(JSON_VALUE(metadata, '$.style')) = LOWER(?)",
                   "LOWER(JSON_VALUE(metadata, '$.style')) LIKE LOWER(?)",
                   "LOWER(JSON_EXTRACT(metadata, '$.tags')) LIKE LOWER(?)" }
           -> { "metadata" }
      [] tok \in { "(image_url IS NOT NULL AND image_url <> '')",
                   "(image_url IS NULL OR image_url='') ASC" } -> { "image_url" }
      [] tok \in { "(logo_url IS NOT NULL AND logo_url <> '')",
                   "(logo_url IS NULL OR logo_url='') ASC" } -> { "logo_url" }
      [] tok = "name ASC" -> { "name" }
      [] OTHER -> {}

\* The tokens that hold one `?`
PlaceholderTokens ==
    { "(embedding, VEC_FromText(?))",
      "LOWER(country) = LOWER(?)", "LOWER(city) = LOWER(?)",
      "LOWER(JSON_VALUE(metadata, '$.style')) = LOWER(?)",
      "LOWER(JSON_VALUE(metadata, '$.style')) LIKE LOWER(?)",
      "LOWER(JSON_EXTRACT(metadata, '$.tags')) LIKE LOWER(?)",
      "LOWER(country) LIKE LOWER(?)" }

\* The number of `?` in the first n tokens of a statement
PlaceholdersBefore(sql, n) ==
    Cardinality({ j \in 1 .. n : sql[j] \in PlaceholderTokens })

\* The parameter bound to the `?` of token i
ParamAt(sql, params, i) == params[PlaceholdersBefore(sql, i)]

\* The text a bound parameter has in SQL
SqlText(v) ==
    CASE v.t = "str" -> v.s
      [] v.t = "bool" -> (IF v.b THEN <<"1">> ELSE <<"0">>)
      [] OTHER -> NULL

\* s LIKE p with the wildcards % (any run) and _ (any one character)
RECURSIVE Like(_, _)
Like(s, p) ==
    IF p = <<>> THEN s = <<>>
    ELSE IF Head(p) = "%" THEN Like(s, Tail(p)) \/ (s # <<>> /\ Like(Tail(s), p))
    ELSE IF s = <<>> THEN FALSE
    ELSE (Head(p) = "_" \/ Head(p) = Head(s)) /\ Like(Tail(s), Tail(p))

\* SQL's three truth values: "T", "F" and "U" (NULL)
And3(a, b) ==
    IF a = "F" \/ b = "F" THEN "F" ELSE IF a = "T" /\ b = "T" THEN "T" ELSE "U"

Or3(a, b) ==
    IF a = "T" \/ b = "T" THEN "T" ELSE IF a = "F" /\ b = "F" THEN "F" ELSE "U"

Bool3(b) == IF b THEN "T" ELSE "F"

\* LOWER(a) = LOWER(b)
EqLower3(a, b) == IF a = NULL \/ b = NULL THEN "U" ELSE Bool3(Lower(a) = Lower(b))

\* LOWER(a) LIKE LOWER(b)
LikeLower3(a, b) == IF a = NULL \/ b = NULL THEN "U" ELSE Bool3(Like(Lower(a), Lower(b)))

\* A metadata column holds NULL or the JSON object load_json_meta writes: an
\* optional "style" string and an optional "tags" array of strings.
NullMetadata == [null |-> TRUE, style |-> NULL, tags |-> None]

\* JSON_VALUE(metadata, '$.style'): the scalar, NULL when absent
JsonStyle(metadata) == IF metadata.null THEN NULL ELSE metadata.style

\* JSON_EXTRACT(metadata, '$.tags'): the JSON text of the array, NULL when
\* absent
JsonTags(metadata) ==
    IF metadata.null THEN NULL
    ELSE IF metadata.tags = None THEN NULL
    ELSE <<"[">>
         \o Concat([i \in DOMAIN metadata.tags |->
                      (IF i = 1 THEN <<>> ELSE <<",", " ">>)
                         \o <<"\"">> \o metadata.tags[i] \o <<"\"">>])
         \o <<"]">>

\* The predicates a statement of queries.py can hold
AtomTokens ==
    (PlaceholderTokens \ { "(embedding, VEC_FromText(?))" })
       \cup { "(image_url IS NOT NULL AND image_url <> '')",
              "(logo_url IS NOT NULL AND logo_url <> '')", "0" }

\* The truth value of the predicate at token i for a row
AtomValue(sql, params, row, i) ==
    LET tok == sql[i]
        arg == SqlText(ParamAt(sql, params, i))
    IN  CASE tok = "LOWER(country) = LOWER(?)" -> EqLower3(row.country, arg)
          [] tok = "LOWER(city) = LOWER(?)" -> EqLower3(row.city, arg)
          [] tok = "LOWER(JSON_VALUE(metadata, '$.style')) = LOWER(?)"
               -> EqLower3(JsonStyle(row.metadata), arg)
          [] tok = "LOWER(JSON_VALUE(metadata, '$.style')) LIKE LOWER(?)"
               -> LikeLower3(JsonStyle(row.metadata), arg)
          [] tok = "LOWER(JSON_EXTRACT(metadata, '$.tags')) LIKE LOWER(?)"
               -> LikeLower3(JsonTags(row.metadata), arg)
          [] tok = "LOWER(country) LIKE LOWER(?)" -> LikeLower3(row.country, arg)
          [] tok = "(image_url IS NOT NULL AND image_url <> '')"
               -> Bool3(row.image_url # NULL /\ row.image_url # <<>>)
          [] tok = "(logo_url IS NOT NULL AND logo_url <> '')"
               -> Bool3(row.logo_url # NULL /\ row.logo_url # <<>>)
          [] OTHER -> "F"

\* The WHERE expression is read by recursive descent:
\*   expr := term (OR term)*, term := factor (AND factor)*,
\*   factor := ( expr ) | predicate.
\* A parse gives [ok, v, i]: whether it succeeded, the truth value for the
\* row, and the position after what was read.
ParseFail == [ok |-> FALSE, v |-> "U", i |-> 0]

RECURSIVE ParseExpr(_, _, _, _)
RECURSIVE ExprRest(_, _, _, _, _)
RECURSIVE ParseTerm(_, _, _, _)
RECURSIVE TermRest(_, _, _, _, _)
RECURSIVE ParseFactor(_, _, _, _)

ParseFactor(sql, params, row, i) ==
    IF i > Len(sql) THEN ParseFail
    ELSE IF sql[i] = "("
    THEN LET e == ParseExpr(sql, params, row, i + 1)
         IN  IF e.ok /\ e.i <= Len(sql) /\ sql[e.i] = ")"
             THEN [ok |-> TRUE, v |-> e.v, i |-> e.i + 1]
             ELSE ParseFail
    ELSE IF sql[i] \in AtomTokens
    THEN [ok |-> TRUE, v |-> AtomValue(sql, params, row, i), i |-> i + 1]
    ELSE ParseFail

TermRest(sql, params, row, i, acc) ==
    IF i <= Len(sql) /\ sql[i] = "AND"
    THEN LET f == ParseFactor(sql, params, row, i + 1)
         IN  IF f.ok THEN TermRest(sql, params, row, f.i, And3(acc, f.v)) ELSE ParseFail
    ELSE [ok |-> TRUE, v |-> acc, i |-> i]

ParseTerm(sql, params, row, i) ==
    LET f == ParseFactor(sql, params, row, i)
    IN  IF f.ok THEN TermRest(sql, params, row, f.i, f.v) ELSE ParseFail

ExprRest(sql, params, row, i, acc) ==
    IF i <= Len(sql) /\ sql[i] = "OR"
    THEN LET t == ParseTerm(sql, params, row, i + 1)
         IN  IF t.ok THEN ExprRest(sql, params, row, t.i, Or3(acc, t.v)) ELSE ParseFail
    ELSE [ok |-> TRUE, v |-> acc, i |-> i]

ParseExpr(sql, params, row, i) ==
    LET t == ParseTerm(sql, params, row, i)
    IN  IF t.ok THEN ExprRest(sql, params, row, t.i, t.v) ELSE ParseFail

\* The position of the first token tok of a statement, 0 when it has none
IndexOf(sql, tok) ==
    IF tok \in Range(sql) THEN CHOOSE i \in DOMAIN sql :
                                  sql[i] = tok /\ \A j \in 1 .. (i - 1) : sql[j] # tok
    ELSE 0

\* The WHERE clause of a statement for a row: absent, or the parse of the
\* expression between WHERE and ORDER BY.
WhereParse(sql, params, row) ==
    ParseExpr(sql, params, row, IndexOf(sql, "WHERE") + 1)

\* A row passes when there is no WHERE or its expression is true (not NULL).
RowPasses(sql, params, row) ==
    ~HasWhere(sql) \/ WhereParse(sql, params, row).v = "T"

\* The distance functions MariaDB Vector knows
SqlDistanceFunctions == { "VEC_DISTANCE_COSINE", "VEC_DISTANCE_EUCLIDEAN", "VEC_DISTANCE" }

\* A statement prepares when its WHERE expression parses up to ORDER BY, it has
\* as many `?` as parameters, every column it names is a column of its table
\* and its distance function exists.  The parse does not depend on the row.
StatementOk(sql, params) ==
    /\ HasWhere(sql) =>
         LET w == WhereParse(sql, [i \in 1 .. Len(sql) |-> PyNone],
                             [country |-> NULL, city |-> NULL, image_url |-> NULL,
                              logo_url |-> NULL, metadata |-> NullMetadata])
         IN  w.ok /\ w.i = IndexOf(sql, "ORDER BY")
    /\ PlaceholdersBefore(sql, Len(sql)) = Len(params)
    /\ \A i \in DOMAIN sql : TokenColumns(sql[i]) \subseteq TableColumns(TableOf(sql))
    /\ "(embedding, VEC_FromText(?))" \in Range(sql) =>
         sql[IndexOf(sql, "(embedding, VEC_FromText(?))") - 1] \in SqlDistanceFunctions

\* VEC_FromText of the serialized vector: its numbers
FloatValue(x) == IF x = "1.0" THEN 1 ELSE 0

VecFromText(text) ==
    LET nums == SelectSeq(text, LAMBDA x : x \notin { "[", ",", "]" })
    IN  [i \in DOMAIN nums |-> FloatValue(nums[i])]

\* The distance of two vectors.  The function is MariaDB's; the model takes
\* the squared Euclidean distance, which is twice the cosine distance on
\* normalised vectors and orders the non-zero vectors of the model as the
\* cosine distance does.
RECURSIVE SumSq(_, _)
SumSq(a, b) ==
    IF a = <<>> \/ b = <<>> THEN 0
    ELSE (Head(a) - Head(b)) * (Head(a) - Head(b)) + SumSq(Tail(a), Tail(b))

VecDistance(a, b) == SumSq(a, b)

\* The value of the `distance` column of the SELECT list for a row
DistanceOf(sql, params, row) ==
    IF "0.0 AS distance" \in Range(sql) THEN 0
    ELSE VecDistance(row.embedding,
                     VecFromText(SqlText(ParamAt(sql, params,
                         IndexOf(sql, "(embedding, VEC_FromText(?))")))))

\* The sort keys of a statement: the tokens after ORDER BY, without the commas
\* and the LIMIT
OrderKeys(sql) ==
    SelectSeq(SubSeq(sql, IndexOf(sql, "ORDER BY") + 1, Len(sql)),
              LAMBDA tok : tok \notin { ",", "LIMIT 1000" })

\* `(image_url IS NULL OR image_url='')`: 0 for a non-empty URL, 1 without
UrlMissing(url) == IF url = NULL \/ url = <<>> THEN 1 ELSE 0

\* `name ASC`: the names compared character by character
NameLess(a, b) == StrLess(a, b)

\* r1 sorts strictly before r2 under one ascending sort key
KeyLess(sql, params, key, r1, r2) ==
    CASE key = "(image_url IS NULL OR image_url='') ASC"
           -> UrlMissing(r1.image_url) < UrlMissing(r2.image_url)
      [] key = "(logo_url IS NULL OR logo_url='') ASC"
           -> UrlMissing(r1.logo_url) < UrlMissing(r2.logo_url)
      [] key = "name ASC" -> NameLess(r1.name, r2.name)
      [] key = "distance ASC"
           -> DistanceOf(sql, params, r1) < DistanceOf(sql, params, r2)
      [] OTHER -> FALSE

\* r1 may come before r2 under the sort keys from the i-th on: the first key
\* on which the two rows differ decides; rows equal on every key may come
\* in either order.
RECURSIVE OrderLeqFrom(_, _, _, _, _, _)
OrderLeqFrom(sql, params, keys, i, r1, r2) ==
    IF i > Len(keys) THEN TRUE
    ELSE IF KeyLess(sql, params, keys[i], r1, r2) THEN TRUE
    ELSE IF KeyLess(sql, params, keys[i], r2, r1) THEN FALSE
    ELSE OrderLeqFrom(sql, params, keys, i + 1, r1, r2)

OrderLeq(sql, params, r1, r2) == OrderLeqFrom(sql, params, OrderKeys(sql), 1, r1, r2)

\* The value of LIMIT, -1 when the statement has none
ResultCap == 1000

LimitOf(sql) == IF "LIMIT 1000" \in Range(sql) THEN ResultCap ELSE -1

\* The first m rows of a sequence of runs (m < 0: all of them)
RECURSIVE Take(_, _)
Take(runs, m) ==
    IF runs = <<>> \/ m = 0 THEN <<>>
    ELSE IF m < 0 \/ Head(runs).n <= m
    THEN <<Head(runs)>> \o Take(Tail(runs), IF m < 0 THEN m ELSE m - Head(runs).n)
    ELSE << [Head(runs) EXCEPT !.n = m] >>

\* The rows of a table that pass the WHERE clause
Candidates(sql, params, table) ==
    { r \in DOMAIN table.rows : RowPasses(sql, params, r) }

\* Every order of the candidates the ORDER BY allows: rows that tie on both
\* keys come in any order.  A run is a row, its distance and the number of
\* table rows it stands for.
OrderedRuns(sql, params, table) ==
    LET C == Candidates(sql, params, table)
        n == Cardinality(C)
    IN  { [i \in 1 .. n |-> [row |-> f[i], distance |-> DistanceOf(sql, params, f[i]),
                              n |-> table.rows[f[i]]]] :
            f \in { g \in [1 .. n -> C] :
                      /\ \A i, j \in 1 .. n : i # j => g[i] # g[j]
                      /\ \A i, j \in 1 .. n : i < j => OrderLeq(sql, params, g[i], g[j]) } }

\* cur.execute(sql, params); cur.fetchall(): the possible outcomes
Fetch(sql, params, table) ==
    IF StatementOk(sql, params)
    THEN { [err |-> "none", rows |-> Take(s, LimitOf(sql))] :
             s \in OrderedRuns(sql, params, table) }
    ELSE { [err |-> "mariadb.Error", rows |-> <<>>] }

(***************************************************************************)
(* The calls the model makes                                               *)
(***************************************************************************)

\* query_text arguments; NULL is None
QueryTexts ==
    { NULL,
      <<"a","i","r","p","o","r","t","s"," ","i","n"," ","A","s","i","a">>,
      <<"g","a","r","d","e","n"," ","b","a","m","b","o","o">>,
      <<"a","r","t","-","k","o","r","e","a">>,
      <<"b","i","g"," ","a","i","r","p","o","r","t","s">>,
      <<"u","k","u","l","e","l","e">>,
      <<" "," ","j","a","p","a","n"," ">>,
      <<" ">>,
      <<"f","r","a","n","c","e"," ","i","n","d","i","a">>,
      <<"G","A","R","D","E","N","S",","," ","g","a","r","d","e","n","s","!">> }

\* filters arguments; <<>> is None
FilterMaps ==
    { <<>>,
      << <<>> >>,
      << [country |-> Str(<<"I","n","d","i","a">>)] >>,
      << [country |-> Str(<<>>), has_image |-> Bool(FALSE)] >>,
      << [has_image |-> Bool(TRUE), country |-> Str(<<"I","N","D","I","A">>)] >>,
      << [city |-> Str(<<"s","e","o","u","l">>), style |-> Str(<<"M","o","d","e","r","n">>)] >>,
      << [continent |-> Str(<<"a","s","i","a">>)] >>,
      << [continent |-> Str(<<"a","s","i","a">>), has_image |-> Bool(TRUE), k |-> Bool(TRUE)] >>,
      << [has_logo |-> Bool(TRUE)] >>,
      << [country |-> Str(<<"I","n","d","i","a">>), city |-> Str(<<"D","e","l","h","i">>), style |-> Str(<<"b","a","m","b","o","o"," ","h","a","l","l">>),
          has_image |-> Bool(TRUE)] >> }

\* k arguments: TextQuery allows 1 .. 10000
Ks == { 1, 10000 }

\* vec arguments
QueryVectors == { <<"1.0", "0.0">>, <<"nan", "1.0">> }

\* The rows a table can hold.  Copies of a row differ in id only.
AirportRows ==
    { [name |-> <<"I","n","c","h","e","o","n">>, city |-> <<"S","e","o","u","l">>, country |-> <<"S","o","u","t","h"," ","K","o","r","e","a">>,
       image_url |-> <<>>,
       metadata |-> [null |-> FALSE, style |-> <<"m","o","d","e","r","n">>, tags |-> << <<"g","a","r","d","e","n">>, <<"g","l","a","s","s">> >>],
       embedding |-> <<1, 0>>],
      [name |-> <<"A","g","r","a">>, city |-> <<"A","g","r","a">>, country |-> <<"I","n","d","i","a">>,
       image_url |-> <<"u">>,
       metadata |-> [null |-> FALSE, style |-> NULL, tags |-> << <<"A","r","t">> >>],
       embedding |-> <<0, 1>>],
      [name |-> <<"D","e","l","h","i">>, city |-> <<"D","e","l","h","i">>, country |-> <<"I","n","d","i","a">>,
       image_url |-> <<"u">>,
       metadata |-> [null |-> FALSE, style |-> <<"B","a","m","b","o","o"," ","h","a","l","l">>, tags |-> None],
       embedding |-> <<1, 1>>],
      [name |-> <<"D","e","l","h","i">>, city |-> NULL, country |-> <<"I","n","d","i","a">>,
       image_url |-> <<"u">>,
       metadata |-> NullMetadata,
       embedding |-> <<1, 1>>],
      [name |-> <<"P","a","r","i","s">>, city |-> <<"P","a","r","i","s">>, country |-> <<"F","r","a","n","c","e">>,
       image_url |-> NULL,
       metadata |-> [null |-> FALSE, style |-> <<"c","l","a","s","s","i","c">>, tags |-> << <<"g","a","r","d","e","n">> >>],
       embedding |-> <<0, 1>>] }

AirlineRows ==
    { [name |-> <<"K","o","r","e","a","n"," ","A","i","r">>, iata |-> <<"K","E">>, icao |-> <<"K","A","L">>, country |-> <<"S","o","u","t","h"," ","K","o","r","e","a">>,
       logo_url |-> <<"u">>, metadata |-> NullMetadata, embedding |-> <<1, 0>>],
      [name |-> <<"A","i","r"," ","I","n","d","i","a">>, iata |-> <<"A","I">>, icao |-> <<"A","I","C">>, country |-> <<"I","n","d","i","a">>,
       logo_url |-> NULL, metadata |-> NullMetadata, embedding |-> <<1, 0>>],
      [name |-> <<"A","i","r"," ","F","r","a","n","c","e">>, iata |-> <<"A","F">>, icao |-> <<"A","F","R">>, country |-> <<"F","r","a","n","c","e">>,
       logo_url |-> <<"u">>, metadata |-> NullMetadata, embedding |-> <<0, 1>>] }

\* At most MaxKinds distinct rows in a table, every one of them once or every
\* one of them Bulk times
MaxKinds == 2

Bulk == 600

Tables(name, universe) ==
    { [name |-> name, rows |-> [r \in S |-> c]] :
        S \in { T \in SUBSET universe : Cardinality(T) <= MaxKinds }, c \in { 1, Bulk } }

(***************************************************************************)
(* The state machine                                                       *)
(*   pc    "idle", "execute" when the statement is built and about to run, *)
(*         "done" after the call returned or raised                        *)
(*   req   the arguments of the call                                       *)
(*   plan  the statement and parameters handed to cur.execute              *)
(*   tbl   the table as it was when the statement ran                      *)
(*   rows  what the call returned, and err the exception it raised         *)
(***************************************************************************)

NoReq == [fn |-> "none", vec |-> <<>>, k |-> 0, filters |-> <<>>, query_text |-> NULL]

NoPlan == [sql |-> <<>>, params |-> <<>>]

NoTable == [name |-> "none", rows |-> <<>>]

\* No request is being served: the router's variables before and between
\* requests
NoBody ==
    [endpoint |-> "none", query |-> <<>>, k |-> 0, filters |-> <<>>,
     image_base64 |-> NULL, weight_text |-> 0, weight_image |-> 0,
     content_type |-> NULL, has_logo |-> FALSE]

NoNorm == [wt |-> 0, wi |-> 0, denom |-> 0]

NoResp == [status |-> 0, detail |-> "none", count |-> 0, hits |-> <<>>]

RouterIdle ==
    /\ rpc = "idle"
    /\ body = NoBody
    /\ t_vec = <<>>
    /\ i_vec = <<>>
    /\ calls = <<>>
    /\ encoded = <<>>
    /\ norm = NoNorm
    /\ storage_arg = <<>>
    /\ db_rows = <<>>
    /\ resp = NoResp
    /\ failure = "none"

\* The worker threads
Threads == { 1, 2 }

\* The process before it is started
NoEnv == [VECTOR_DISTANCE_FN |-> NULL, DB_USE_POOL |-> TRUE, started |-> FALSE, warned |-> FALSE]

\* A thread that serves no request
NoThread ==
    [op |-> "none", pc |-> "idle", model |-> 0, conn |-> "none", pool |-> 0, closes |-> 0,
     block |-> "none", ping |-> "none", fn |-> NULL, status |-> 0, body |-> <<>>]

ServiceIdle ==
    /\ env = NoEnv
    /\ db_up = TRUE
    /\ _model = 0
    /\ _pool = 0
    /\ constructed = 0
    /\ pools_made = 0
    /\ th = [t \in Threads |-> NoThread]

\* The labels latencies are recorded under
Labels == { "db.search_airports", "db.search_airlines" }

\* A thread that is in no call of utils/metrics.py
NoCall ==
    [op |-> "none", pc |-> "idle", label |-> "none", sample |-> 0, dq |-> <<>>,
     raised |-> FALSE, appends |-> 0, stats |-> <<>>]

MetricsIdle ==
    /\ _store = [l \in {} |-> <<>>]
    /\ _lock = 0
    /\ mth = [t \in Threads |-> NoCall]
    /\ arrived = [l \in Labels |-> <<>>]
    /\ issued = 0

\* No call of search_airports_by_text is in progress
NoBuilder ==
    [pc |-> "idle", req |-> NoReq, keywords |-> <<>>, region_countries |-> None,
     sql |-> <<>>, params |-> <<>>]

PlanIdle == builders = [s \in Threads |-> NoBuilder]

Init ==
    /\ pc = "idle"
    /\ req = NoReq
    /\ plan = NoPlan
    /\ tbl = NoTable
    /\ rows = <<>>
    /\ err = "none"
    /\ RouterIdle
    /\ ServiceIdle
    /\ MetricsIdle
    /\ PlanIdle

\* search_airports_by_text(vec, k, filters, query_text), up to the statement
\* it hands to the cursor
search_airports_by_text ==
    /\ pc = "idle"
    /\ \E vec \in QueryVectors, k \in Ks, filters \in FilterMaps, query_text \in QueryTexts :
         /\ req' = [fn |-> "search_airports_by_text", vec |-> vec, k |-> k,
                    filters |-> filters, query_text |-> query_text]
         /\ plan' = AirportsStatement(vec, k, filters, query_text)
    /\ pc' = "execute"
    /\ UNCHANGED <<tbl, rows, err>>
    /\ UNCHANGED <<routerVars, serviceVars, metricsVars, planVars>>

\* search_airlines_by_image(vec, k, filters), up to the statement it hands to
\* the cursor
search_airlines_by_image ==
    /\ pc = "idle"
    /\ \E vec \in QueryVectors, k \in Ks, filters \in FilterMaps :
         /\ req' = [fn |-> "search_airlines_by_image", vec |-> vec, k |-> k,
                    filters |-> filters, query_text |-> NULL]
         /\ plan' = AirlinesStatement(vec, k, filters)
    /\ pc' = "execute"
    /\ UNCHANGED <<tbl, rows, err>>
    /\ UNCHANGED <<routerVars, serviceVars, metricsVars, planVars>>

\* cur.execute(sql, params); rows = cur.fetchall(); return rows.  The
\* statement runs against the table as it is at that moment.
cur_execute ==
    /\ pc = "execute"
    /\ \E table \in (IF TableOf(plan.sql) = "airports"
                     THEN Tables("airports", AirportRows)
                     ELSE Tables("airlines", AirlineRows)) :
         /\ tbl' = table
         /\ \E out \in Fetch(plan.sql, plan.params, table) :
              rows' = out.rows /\ err' = out.err
    /\ pc' = "done"
    /\ UNCHANGED <<req, plan>>
    /\ UNCHANGED <<routerVars, serviceVars, metricsVars, planVars>>

\* The caller takes the rows (or the exception); the next call starts afresh.
Return ==
    /\ pc = "done"
    /\ pc' = "idle"
    /\ req' = NoReq
    /\ plan' = NoPlan
    /\ tbl' = NoTable
    /\ rows' = <<>>
    /\ err' = "none"
    /\ UNCHANGED <<routerVars, serviceVars, metricsVars, planVars>>

Next == search_airports_by_text \/ search_airlines_by_image \/ cur_execute \/ Return

Spec == Init /\ [][Next]_vars

(***************************************************************************)
(* What the claims speak about, stated on the query text, the statement    *)
(* and the rows rather than on the steps that built them                   *)
(***************************************************************************)

Airports == req.fn = "search_airports_by_text"

Built == pc = "execute"

Returned == pc = "done" /\ err = "none"

\* The query text in lower case
QLower == Lower(OrEmpty(req.query_text))

\* Some region's name, or one of its country tokens, occurs in the text.
RegionOccurs ==
    LET text == QLower
    IN  \E i \in DOMAIN _REGION_KEYWORDS :
           \/ Contains(text, _REGION_KEYWORDS[i].region)
           \/ \E j \in DOMAIN _REGION_KEYWORDS[i].countries :
                 Contains(text, _REGION_KEYWORDS[i].countries[j])

\* w stands in the text as a whole run of letters.
OccursAsWord(text, w) ==
    \E i \in 1 .. (Len(text) - Len(w) + 1) :
       /\ SubSeq(text, i, i + Len(w) - 1) = w
       /\ i = 1 \/ text[i - 1] \notin Letters
       /\ i + Len(w) - 1 = Len(text) \/ text[i + Len(w)] \notin Letters

\* The whitelisted words of the text
KeywordsInText ==
    LET text == QLower
    IN  { w \in _KEYWORD_WHITELIST : OccursAsWord(text, w) }

\* The two shapes of a statement
RegionOnlyShape(sql) ==
    /\ "0.0 AS distance" \in Range(sql)
    /\ "(embedding, VEC_FromText(?))" \notin Range(sql)
    /\ OrderKeys(sql) = << "(image_url IS NULL OR image_url='') ASC", "name ASC" >>

VectorSimilarityShape(sql) ==
    /\ "0.0 AS distance" \notin Range(sql)
    /\ "(embedding, VEC_FromText(?))" \in Range(sql)
    /\ OrderKeys(sql) = << "(image_url IS NULL OR image_url='') ASC", "distance ASC" >>

(***************************************************************************)
(* C1                                                                      *)
(***************************************************************************)

\* C1: search_airports_by_text builds the RegionOnly statement if and only if
\* a region occurs in the query text and no whitelisted keyword does; in every
\* other case (no region, or any keyword, with or without a region) it builds
\* the VectorSimilarity statement; a statement has exactly one of the shapes.
C1_ModeSelection ==
    (Built /\ Airports) =>
       /\ RegionOnlyShape(plan.sql) <=> (RegionOccurs /\ KeywordsInText = {})
       /\ VectorSimilarityShape(plan.sql) <=> ~(RegionOccurs /\ KeywordsInText = {})
       /\ RegionOnlyShape(plan.sql) # VectorSimilarityShape(plan.sql)

\* A query with a region and no keyword got the RegionOnly statement.
C1_Witness ==
    /\ Built /\ Airports
    /\ RegionOccurs /\ KeywordsInText = {}
    /\ RegionOnlyShape(plan.sql)

\* A query with a region and a keyword got the VectorSimilarity statement.
C1_KeywordAndRegion ==
    /\ Built /\ Airports
    /\ RegionOccurs /\ KeywordsInText # {}
    /\ VectorSimilarityShape(plan.sql)

(***************************************************************************)
(* C2                                                                      *)
(***************************************************************************)

\* The number of rows a sequence of runs stands for
RECURSIVE RowCount(_)
RowCount(runs) == IF runs = <<>> THEN 0 ELSE Head(runs).n + RowCount(Tail(runs))

\* The number of rows of the table that pass the WHERE clause
RECURSIVE BagCount(_, _)
BagCount(bag, S) ==
    IF S = {} THEN 0
    ELSE LET r == CHOOSE x \in S : TRUE IN bag[r] + BagCount(bag, S \ {r})

MatchingCount == BagCount(tbl.rows, Candidates(plan.sql, plan.params, tbl))

\* How many of the table's copies of row r the result holds
RECURSIVE Returned_n(_, _)
Returned_n(runs, r) ==
    IF runs = <<>> THEN 0
    ELSE (IF Head(runs).row = r THEN Head(runs).n ELSE 0) + Returned_n(Tail(runs), r)

Min(a, b) == IF a <= b THEN a ELSE b

C2_LargeK ==
    /\ Returned
    /\ req.k = 10000
    /\ MatchingCount > 1000
    /\ RowCount(rows) = 1000

(***************************************************************************)
(* C3                                                                      *)
(***************************************************************************)

\* The tokens of the WHERE clause: those between WHERE and ORDER BY
WhereTokens(sql) ==
    IF HasWhere(sql)
    THEN SubSeq(sql, IndexOf(sql, "WHERE") + 1, IndexOf(sql, "ORDER BY") - 1)
    ELSE <<>>

Count(s, tok) == Cardinality({ i \in DOMAIN s : s[i] = tok })

\* The number of parentheses open before token i
Depth(s, i) ==
    Cardinality({ j \in 1 .. (i - 1) : s[j] = "(" })
       - Cardinality({ j \in 1 .. (i - 1) : s[j] = ")" })

\* The ANDs that join the groups: those outside every parenthesis
TopLevelAnds(s) == { i \in DOMAIN s : s[i] = "AND" /\ Depth(s, i) = 0 }

\* The recognized filter keys with a truthy value, and the predicate of each
SetFilters ==
    IF req.filters = <<>> THEN {}
    ELSE { key \in { "country", "city", "style", "has_image", "has_logo" } :
             key \in DOMAIN req.filters[1] /\ PyTruthy(req.filters[1][key]) }

FilterPredicate(key) ==
    CASE key = "country" -> "LOWER(country) = LOWER(?)"
      [] key = "city" -> "LOWER(city) = LOWER(?)"
      [] key = "style" -> "LOWER(JSON_VALUE(metadata, '$.style')) = LOWER(?)"
      [] key = "has_image" -> "(image_url IS NOT NULL AND image_url <> '')"
      [] key = "has_logo" -> "(logo_url IS NOT NULL AND logo_url <> '')"

\* The number of groups that apply
GroupsExpected ==
    Cardinality(SetFilters) + (IF KeywordsInText # {} THEN 1 ELSE 0)
       + (IF RegionOccurs THEN 1 ELSE 0)

\* The positions of the tokens of a kind in the WHERE clause lie in one
\* group: no joining AND stands between two of them.
InOneGroup(w, toks) ==
    \A i, j \in { x \in DOMAIN w : w[x] \in toks } :
       \A a \in TopLevelAnds(w) : ~(i < a /\ a < j)

KeywordTokens ==
    { "LOWER(JSON_VALUE(metadata, '$.style')) LIKE LOWER(?)",
      "LOWER(JSON_EXTRACT(metadata, '$.tags')) LIKE LOWER(?)" }

\* C3: the WHERE clause of search_airports_by_text is the conjunction of
\* exactly the groups that apply: the predicate of each recognized filter
\* with a truthy value, once; one keyword group (two LIKE tests per keyword)
\* iff the text holds a keyword; one region group (one LIKE per country) iff
\* a region occurs, in both modes.  WHERE stands iff a group applies, and
\* once; the groups are joined by AND; no group and no parenthesis is empty;
\* the expression parses.
C3_ConjunctionOfGroups ==
    (Built /\ Airports) =>
       LET w == WhereTokens(plan.sql)
       IN  /\ Count(plan.sql, "WHERE") = (IF GroupsExpected > 0 THEN 1 ELSE 0)
           /\ GroupsExpected > 0 => Cardinality(TopLevelAnds(w)) = GroupsExpected - 1
           /\ GroupsExpected = 0 => w = <<>> /\ Count(plan.sql, "AND") = 0
           /\ \A key \in { "country", "city", "style", "has_image", "has_logo" } :
                Count(w, FilterPredicate(key)) = (IF key \in SetFilters THEN 1 ELSE 0)
           /\ \A tok \in KeywordTokens : Count(w, tok) = Cardinality(KeywordsInText)
           /\ InOneGroup(w, KeywordTokens)
           /\ RegionOccurs <=> Count(w, "LOWER(country) LIKE LOWER(?)") > 0
           /\ RegionOccurs =>
                Count(w, "LOWER(country) LIKE LOWER(?)") = Len(_detect_region(QLower))
           /\ InOneGroup(w, { "LOWER(country) LIKE LOWER(?)" })
           /\ \A i \in DOMAIN w : Depth(w, i) >= 0
           /\ \A i \in 1 .. (Len(w) - 1) :
                /\ ~(w[i] = "(" /\ w[i + 1] = ")")
                /\ ~(w[i] \in { "AND", "OR", "(" } /\ w[i + 1] \in { "AND", "OR", ")" })
           /\ w # <<>> => w[1] \notin { "AND", "OR" } /\ w[Len(w)] \notin { "AND", "OR" }
           /\ HasWhere(plan.sql) =>
                LET e == WhereParse(plan.sql, plan.params,
                                    [country |-> NULL, city |-> NULL, image_url |-> NULL,
                                     logo_url |-> NULL, metadata |-> NullMetadata])
                IN  e.ok /\ e.i = IndexOf(plan.sql, "ORDER BY")

\* A query with a keyword and a region, and two filters set: four groups.
C3_Witness ==
    /\ Built /\ Airports
    /\ KeywordsInText # {} /\ RegionOccurs
    /\ Cardinality(SetFilters) >= 2
    /\ Cardinality(TopLevelAnds(WhereTokens(plan.sql))) = 3

(***************************************************************************)
(* C4                                                                      *)
(***************************************************************************)

\* The region group of a statement is the parenthesis that holds its
\* `LOWER(country) LIKE LOWER(?)` tests; a row passes it when it is true.
PassesRegionGroup(sql, params, row) ==
    ParseFactor(sql, params, row, IndexOf(sql, "LOWER(country) LIKE LOWER(?)") - 1).v = "T"

\* The country holds one of the tokens as a substring, case-insensitively.
CountryHoldsToken(row, tokens) ==
    /\ row.country # NULL
    /\ \E j \in DOMAIN tokens : Contains(Lower(row.country), Lower(tokens[j]))

\* C4: when a region is detected, a row passes the region filter if and only
\* if its country contains, as a case-insensitive substring, at least one
\* country token of the detected region (a row of 'South Korea' passes for the
\* token 'korea').
C4_RegionSubstring ==
    (Returned /\ Airports /\ RegionOccurs) =>
       \A r \in DOMAIN tbl.rows :
          PassesRegionGroup(plan.sql, plan.params, r)
             <=> CountryHoldsToken(r, _detect_region(QLower))

(***************************************************************************)
(* C5                                                                      *)
(***************************************************************************)

\* The keyword occurs in the row's metadata style or in one of its tags,
\* case-insensitively.
RowMatchesKeyword(row, kw) ==
    /\ ~row.metadata.null
    /\ \/ row.metadata.style # NULL /\ Contains(Lower(row.metadata.style), kw)
       \/ /\ row.metadata.tags # None
          /\ \E t \in DOMAIN row.metadata.tags : Contains(Lower(row.metadata.tags[t]), kw)

RowMatchesSomeKeyword(row) == \E kw \in KeywordsInText : RowMatchesKeyword(row, kw)

RecognizedKeys == { "country", "city", "style", "has_image", "has_logo" }

\* A filter map restricted to the recognized keys
Restrict(filters) ==
    IF filters = <<>> THEN <<>>
    ELSE << [key \in (DOMAIN filters[1]) \cap RecognizedKeys |-> filters[1][key]] >>

\* The statement the call of req builds when given the filters f instead
StatementWith(f) ==
    IF Airports THEN AirportsStatement(req.vec, req.k, f, req.query_text)
    ELSE AirlinesStatement(req.vec, req.k, f)

\* C6: keys outside {country, city, style, has_image, has_logo} are ignored:
\* the statement and parameters built for a filter map are those built for
\* the map restricted to the recognized keys, and a map of unrecognized keys
\* only gives what no filters give.
C6_UnknownKeysIgnored ==
    Built =>
       /\ plan = StatementWith(Restrict(req.filters))
       /\ (req.filters # <<>> /\ (DOMAIN req.filters[1]) \cap RecognizedKeys = {}) =>
            plan = StatementWith(<<>>)

\* A filter map with unrecognized keys and a recognized one that is set.
C6_Witness ==
    /\ Built
    /\ req.filters # <<>>
    /\ (DOMAIN req.filters[1]) \ RecognizedKeys # {}
    /\ SetFilters # {}
    /\ HasWhere(plan.sql)

\* A filter map with unrecognized keys only: no WHERE from the filters.
C6_OnlyUnknown ==
    /\ Built
    /\ req.filters # <<>>
    /\ DOMAIN req.filters[1] # {}
    /\ (DOMAIN req.filters[1]) \cap RecognizedKeys = {}
    /\ ~HasWhere(plan.sql)

(***************************************************************************)
(* C7                                                                      *)
(***************************************************************************)

\* A parameter that is a serialized vector
IsVectorText(v) == v.t = "str" /\ v.s # <<>> /\ v.s[1] = "["

\* The numbers of the query vector, the non-finite ones as 0
CleanedVec(vec) ==
    [i \in DOMAIN vec |-> IF vec[i] \in { "nan", "inf", "-inf" } THEN 0
                          ELSE IF vec[i] = "1.0" THEN 1 ELSE 0]

RegionOnlyCase == RegionOccurs /\ KeywordsInText = {}

\* C7: a RegionOnly statement has no `?` for a vector, binds no vector and
\* reports distance 0.0 for every row; a VectorSimilarity statement has
\* exactly one VEC_FromText(?), inside the configured distance function, and
\* it is the first `?`, bound to the serialized query vector, the only
\* vector among the parameters.  A vector is bound iff the mode is
\* VectorSimilarity.
C7_VectorBoundIffVectorMode ==
    /\ (Built /\ Airports) =>
         LET v == "(embedding, VEC_FromText(?))"
             RegionOnly == RegionOnlyCase
         IN  /\ PlaceholdersBefore(plan.sql, Len(plan.sql)) = Len(plan.params)
             /\ RegionOnly <=> \A i \in DOMAIN plan.params : ~IsVectorText(plan.params[i])
             /\ RegionOnly =>
                  /\ Count(plan.sql, v) = 0
                  /\ Count(plan.sql, "0.0 AS distance") = 1
             /\ ~RegionOnly =>
                  /\ Count(plan.sql, v) = 1
                  /\ Count(plan.sql, "0.0 AS distance") = 0
                  /\ plan.sql[IndexOf(plan.sql, v) - 1] = "VEC_DISTANCE_COSINE"
                  /\ PlaceholdersBefore(plan.sql, IndexOf(plan.sql, v)) = 1
                  /\ IsVectorText(plan.params[1])
                  /\ VecFromText(plan.params[1].s) = CleanedVec(req.vec)
                  /\ \A i \in 2 .. Len(plan.params) : ~IsVectorText(plan.params[i])
    /\ (Returned /\ Airports /\ RegionOnlyCase) =>
         \A i \in DOMAIN rows : rows[i].distance = 0

\* A RegionOnly call returned rows whose embeddings differ from the query
\* vector, all with distance 0.
C7_Witness ==
    /\ Returned /\ Airports /\ RegionOnlyCase
    /\ rows # <<>>
    /\ \A i \in DOMAIN rows :
          rows[i].distance = 0 /\ rows[i].row.embedding # CleanedVec(req.vec)
    /\ \A i \in DOMAIN plan.params : ~IsVectorText(plan.params[i])

(***************************************************************************)
(* C8 and C9                                                               *)
(***************************************************************************)

HasImage(row) == row.image_url # NULL /\ row.image_url # <<>>

\* C8: in a VectorSimilarity result no row without an image comes before a
\* row with a non-empty image URL, and of two rows with equal image presence
\* the earlier has the smaller or equal distance; the distance reported is
\* the distance of the row's embedding from the query vector.
C8_VectorOrdering ==
    (Returned /\ Airports /\ ~RegionOnlyCase) =>
       /\ \A i \in DOMAIN rows :
            rows[i].distance = VecDistance(rows[i].row.embedding, CleanedVec(req.vec))
       /\ \A i, j \in DOMAIN rows :
            i < j =>
               /\ ~(~HasImage(rows[i].row) /\ HasImage(rows[j].row))
               /\ HasImage(rows[i].row) = HasImage(rows[j].row) =>
                    rows[i].distance <= rows[j].distance

\* Two rows with an image came back in the order of their distances, which
\* is not the order of their names.
C8_Witness ==
    /\ Returned /\ Airports /\ ~RegionOnlyCase
    /\ Len(rows) = 2
    /\ HasImage(rows[1].row) /\ HasImage(rows[2].row)
    /\ rows[1].distance < rows[2].distance
    /\ StrLess(rows[2].row.name, rows[1].row.name)

\* A row without an image came back after a row with one that is farther.
C8_ImageFirst ==
    /\ Returned /\ Airports /\ ~RegionOnlyCase
    /\ Len(rows) = 2
    /\ HasImage(rows[1].row) /\ ~HasImage(rows[2].row)
    /\ rows[1].distance > rows[2].distance

\* C9: in a RegionOnly result every row has distance 0.0, no row without an
\* image comes before a row with a non-empty image URL, and of two rows with
\* equal image presence the earlier has the smaller or equal name.
C9_RegionOrdering ==
    (Returned /\ Airports /\ RegionOnlyCase) =>
       /\ \A i \in DOMAIN rows : rows[i].distance = 0
       /\ \A i, j \in DOMAIN rows :
            i < j =>
               /\ ~(~HasImage(rows[i].row) /\ HasImage(rows[j].row))
               /\ HasImage(rows[i].row) = HasImage(rows[j].row) =>
                    StrLeq(rows[i].row.name, rows[j].row.name)

\* Two rows with an image came back in the order of their names, which is
\* not the order of their distances from the query vector.
C9_Witness ==
    /\ Returned /\ Airports /\ RegionOnlyCase
    /\ Len(rows) = 2
    /\ HasImage(rows[1].row) /\ HasImage(rows[2].row)
    /\ StrLess(rows[1].row.name, rows[2].row.name)
    /\ VecDistance(rows[1].row.embedding, CleanedVec(req.vec))
          > VecDistance(rows[2].row.embedding, CleanedVec(req.vec))

(***************************************************************************)
(* C10                                                                     *)
(***************************************************************************)

\* The second ordering key is the name in a RegionOnly airports search and
\* the distance otherwise.
SecondKeyIsName == Airports /\ RegionOnlyCase

\* The two ordering keys of a row of the searched table
KeyOf(row, byName) ==
    << IF Airports THEN (IF HasImage(row) THEN 0 ELSE 1)
       ELSE (IF row.logo_url # NULL /\ row.logo_url # <<>> THEN 0 ELSE 1),
       IF byName THEN row.name
       ELSE VecDistance(row.embedding, CleanedVec(req.vec)) >>

\* The keys k1 come strictly before the keys k2
KeyBefore(k1, k2, byName) ==
    \/ k1[1] < k2[1]
    \/ k1[1] = k2[1] /\ (IF byName THEN StrLess(k1[2], k2[2]) ELSE k1[2] < k2[2])

\* The keys of a result in order, each with the number of rows that have it
RECURSIVE KeyRuns(_, _, _)
KeyRuns(runs, acc, byName) ==
    IF runs = <<>> THEN acc
    ELSE LET k == KeyOf(Head(runs).row, byName)
         IN  IF acc # <<>> /\ acc[Len(acc)].key = k
             THEN KeyRuns(Tail(runs), [acc EXCEPT ![Len(acc)].n = @ + Head(runs).n], byName)
             ELSE KeyRuns(Tail(runs), Append(acc, [key |-> k, n |-> Head(runs).n]), byName)

\* C10 as stated: the two ordering keys decide between any two distinct
\* candidate rows, so the result, and what survives the truncation, is the
\* only one the candidate set allows.
C10_TotalOrder ==
    Returned =>
       LET byName == SecondKeyIsName
       IN  /\ \A r1, r2 \in Candidates(plan.sql, plan.params, tbl) :
                r1 # r2 => \/ KeyBefore(KeyOf(r1, byName), KeyOf(r2, byName), byName)
                           \/ KeyBefore(KeyOf(r2, byName), KeyOf(r1, byName), byName)
           /\ \A out \in Fetch(plan.sql, plan.params, tbl) : out.rows = rows

\* C10, amended: the two keys order the candidate rows up to ties.  Of two
\* candidates with different keys the keys decide which comes first, and no
\* result has a row before one whose keys come strictly before its own;
\* candidates equal on both keys may come in either order.  Every result the
\* candidate set allows has the same sequence of keys with the same number
\* of rows for each, before and after the truncation.
C10_OrderUpToTies ==
    Returned =>
       LET C == Candidates(plan.sql, plan.params, tbl)
           byName == SecondKeyIsName
       IN  /\ \A r1, r2 \in C :
                KeyOf(r1, byName) # KeyOf(r2, byName) =>
                   KeyBefore(KeyOf(r1, byName), KeyOf(r2, byName), byName)
                      # KeyBefore(KeyOf(r2, byName), KeyOf(r1, byName), byName)
           /\ \A out \in Fetch(plan.sql, plan.params, tbl) :
                /\ \A i, j \in DOMAIN out.rows :
                     i < j => ~KeyBefore(KeyOf(out.rows[j].row, byName),
                                     KeyOf(out.rows[i].row, byName), byName)
                /\ KeyRuns(out.rows, <<>>, byName) = KeyRuns(rows, <<>>, byName)

\* Two distinct candidates tie on both keys, the truncation cuts between
\* them, and another result with other rows was possible.
C10_Witness ==
    /\ Returned
    /\ Len(rows) = 2
    /\ rows[1].row # rows[2].row
    /\ KeyOf(rows[1].row, SecondKeyIsName) = KeyOf(rows[2].row, SecondKeyIsName)
    /\ rows[2].n < tbl.rows[rows[2].row]
    /\ \E out \in Fetch(plan.sql, plan.params, tbl) : out.rows # rows

(***************************************************************************)
(* C11                                                                     *)
(***************************************************************************)

\* The words of a list joined by single spaces
RECURSIVE SpaceJoined(_)
SpaceJoined(words) ==
    IF words = <<>> THEN <<>>
    ELSE IF Len(words) = 1 THEN words[1]
    ELSE words[1] \o <<" ">> \o SpaceJoined(Tail(words))

\* C11: for the text of every call, absent and blank ones included,
\* _extract_keywords gives whitelisted words only, in strictly ascending
\* order (so sorted and without duplicates), and they are the whitelisted
\* words that stand in the text; an absent or empty text gives the empty
\* list; extracting from the space-joined result gives the same list again.
C11_ExtractKeywords ==
    (Built /\ Airports) =>
       LET ks == _extract_keywords(req.query_text)
       IN  /\ \A i \in DOMAIN ks : ks[i] \in _KEYWORD_WHITELIST
           /\ \A i \in DOMAIN ks : i > 1 => StrLess(ks[i - 1], ks[i])
           /\ DOMAIN ks = 1 .. Len(ks)
           /\ Range(ks) = KeywordsInText
           /\ (req.query_text = NULL \/ req.query_text = <<>>) => ks = <<>>
           /\ _extract_keywords(SpaceJoined(ks)) = ks

\* A text whose two keywords stand in descending order gave them ascending.
C11_Witness ==
    /\ Built /\ Airports
    /\ _extract_keywords(req.query_text) = << <<"b","a","m","b","o","o">>, <<"g","a","r","d","e","n">> >>
    /\ Contains(req.query_text, <<"n"," ","b">>)

\* A text that holds the same keyword twice, in two cases, gave it once.
C11_Duplicate ==
    /\ Built /\ Airports
    /\ _extract_keywords(req.query_text) = << <<"g","a","r","d","e","n","s">> >>
    /\ Contains(req.query_text, <<"G","A","R","D","E","N","S">>)
    /\ Contains(req.query_text, <<"g","a","r","d","e","n","s">>)

(***************************************************************************)
(* C12                                                                     *)
(***************************************************************************)

\* The declared regions whose name or one of whose country tokens occurs in
\* the lowercased text
RegionsIn(text) ==
    LET q == Lower(OrEmpty(text))
    IN  { i \in DOMAIN _REGION_KEYWORDS :
            \/ Contains(q, _REGION_KEYWORDS[i].region)
            \/ \E j \in DOMAIN _REGION_KEYWORDS[i].countries :
                  Contains(q, _REGION_KEYWORDS[i].countries[j]) }

\* C12: the regions are declared in the order asia, europe, africa, america,
\* oceania; _detect_region gives the country list of the first declared
\* region whose name or one of whose country tokens is a substring of the
\* lowercased text, so the earlier-declared of two matching regions wins, and
\* it gives no region when none matches.
C12_DetectRegion ==
    /\ [i \in DOMAIN _REGION_KEYWORDS |-> _REGION_KEYWORDS[i].region]
          = << <<"a","s","i","a">>, <<"e","u","r","o","p","e">>, <<"a","f","r","i","c","a">>,
               <<"a","m","e","r","i","c","a">>, <<"o","c","e","a","n","i","a">> >>
    /\ (Built /\ Airports) =>
         LET M == RegionsIn(req.query_text)
             got == _detect_region(req.query_text)
         IN  IF M = {} THEN got = None
             ELSE \E i \in M : /\ \A j \in M : i <= j
                               /\ got = _REGION_KEYWORDS[i].countries

\* A text that names a European country before an Asian one gave Asia.
C12_Witness ==
    /\ Built /\ Airports
    /\ RegionsIn(req.query_text) = { 1, 2 }
    /\ Contains(req.query_text, <<"f","r","a","n","c","e"," ","i","n","d","i","a">>)
    /\ _detect_region(req.query_text) = _REGION_KEYWORDS[1].countries

\* A region matched only because a country token stands inside a longer word.
C12_Substring ==
    /\ Built /\ Airports
    /\ req.query_text = <<"u","k","u","l","e","l","e">>
    /\ _detect_region(req.query_text) = _REGION_KEYWORDS[2].countries

\* A text without any region name or token gave no region.
C12_NoRegion ==
    /\ Built /\ Airports
    /\ req.query_text # NULL /\ Len(req.query_text) > 3
    /\ _detect_region(req.query_text) = None

(***************************************************************************)
(* routers/search.py: JSON values                                          *)
(*                                                                         *)
(* A JSON value is a record [t, s, n, items]: t is "null", "str", "num",   *)
(* "list" or "dict"; s the characters of a string, n a number, items the   *)
(* elements of a list or the [k, v] members of an object.  JSON text is    *)
(* read and written character by character.                                *)
(***************************************************************************)

JNull == [t |-> "null", s |-> <<>>, n |-> 0, items |-> <<>>]

JStr(s) == [t |-> "str", s |-> s, n |-> 0, items |-> <<>>]

JNum(n) == [t |-> "num", s |-> <<>>, n |-> n, items |-> <<>>]

JList(items) == [t |-> "list", s |-> <<>>, n |-> 0, items |-> items]

JDict(items) == [t |-> "dict", s |-> <<>>, n |-> 0, items |-> items]

Digits == <<"0","1","2","3","4","5","6","7","8","9">>

DigitValue(c) == (CHOOSE i \in DOMAIN Digits : Digits[i] = c) - 1

\* A failed read: json.loads raises
JFail == [ok |-> FALSE, v |-> JNull, i |-> 0]

\* The position of the first character from i on that is not a space
RECURSIVE SkipSpace(_, _)
SkipSpace(s, i) == IF i <= Len(s) /\ s[i] = " " THEN SkipSpace(s, i + 1) ELSE i

\* The characters of a string literal from i on, up to its closing quote
RECURSIVE ReadString(_, _, _)
ReadString(s, i, acc) ==
    IF i > Len(s) THEN JFail
    ELSE IF s[i] = "\"" THEN [ok |-> TRUE, v |-> JStr(acc), i |-> i + 1]
    ELSE ReadString(s, i + 1, Append(acc, s[i]))

\* The digits of a number from i on
RECURSIVE ReadNumber(_, _, _)
ReadNumber(s, i, acc) ==
    IF i <= Len(s) /\ s[i] \in Range(Digits)
    THEN ReadNumber(s, i + 1, 10 * acc + DigitValue(s[i]))
    ELSE [ok |-> TRUE, v |-> JNum(acc), i |-> i]

RECURSIVE ReadValue(_, _)
RECURSIVE ReadElements(_, _, _)
RECURSIVE ReadMembers(_, _, _)

\* The elements of an array after its `[` or after a comma
ReadElements(s, i, acc) ==
    LET e == ReadValue(s, i)
        j == SkipSpace(s, e.i)
    IN  IF ~e.ok \/ j > Len(s) THEN JFail
        ELSE IF s[j] = "," THEN ReadElements(s, j + 1, Append(acc, e.v))
        ELSE IF s[j] = "]" THEN [ok |-> TRUE, v |-> JList(Append(acc, e.v)), i |-> j + 1]
        ELSE JFail

\* The members of an object after its `{` or after a comma
ReadMembers(s, i, acc) ==
    LET a == SkipSpace(s, i)
        k == IF a <= Len(s) /\ s[a] = "\"" THEN ReadString(s, a + 1, <<>>) ELSE JFail
        c == SkipSpace(s, k.i)
        e == IF k.ok /\ c <= Len(s) /\ s[c] = ":" THEN ReadValue(s, c + 1) ELSE JFail
        j == SkipSpace(s, e.i)
        m == Append(acc, [k |-> k.v.s, v |-> e.v])
    IN  IF ~e.ok \/ j > Len(s) THEN JFail
        ELSE IF s[j] = "," THEN ReadMembers(s, j + 1, m)
        ELSE IF s[j] = "}" THEN [ok |-> TRUE, v |-> JDict(m), i |-> j + 1]
        ELSE JFail

\* One JSON value from i on
ReadValue(s, i) ==
    LET a == SkipSpace(s, i)
    IN  IF a > Len(s) THEN JFail
        ELSE IF s[a] = "{"
        THEN (IF SkipSpace(s, a + 1) <= Len(s) /\ s[SkipSpace(s, a + 1)] = "}"
              THEN [ok |-> TRUE, v |-> JDict(<<>>), i |-> SkipSpace(s, a + 1) + 1]
              ELSE ReadMembers(s, a + 1, <<>>))
        ELSE IF s[a] = "["
        THEN (IF SkipSpace(s, a + 1) <= Len(s) /\ s[SkipSpace(s, a + 1)] = "]"
              THEN [ok |-> TRUE, v |-> JList(<<>>), i |-> SkipSpace(s, a + 1) + 1]
              ELSE ReadElements(s, a + 1, <<>>))
        ELSE IF s[a] = "\"" THEN ReadString(s, a + 1, <<>>)
        ELSE IF s[a] \in Range(Digits) THEN ReadNumber(s, a, 0)
        ELSE IF a + 3 <= Len(s) /\ SubSeq(s, a, a + 3) = <<"n","u","l","l">>
        THEN [ok |-> TRUE, v |-> JNull, i |-> a + 4]
        ELSE JFail

\* json.loads(text): the value, or not ok when it raises; the whole text must
\* be one value
json_loads(text) ==
    LET r == ReadValue(text, 1)
    IN  IF r.ok /\ SkipSpace(text, r.i) > Len(text) THEN r ELSE JFail

\* The decimal digits of a natural number
RECURSIVE NumberText(_)
NumberText(n) ==
    IF n < 10 THEN <<Digits[n + 1]>> ELSE NumberText(n \div 10) \o <<Digits[(n % 10) + 1]>>

\* json.dumps(value) with its default separators ", " and ": "
RECURSIVE json_dumps(_)
json_dumps(v) ==
    CASE v.t = "null" -> <<"n","u","l","l">>
      [] v.t = "str" -> <<"\"">> \o v.s \o <<"\"">>
      [] v.t = "num" -> NumberText(v.n)
      [] v.t = "list" ->
           <<"[">> \o Concat([i \in DOMAIN v.items |->
                                (IF i = 1 THEN <<>> ELSE <<",", " ">>) \o json_dumps(v.items[i])])
                   \o <<"]">>
      [] v.t = "dict" ->
           <<"{">> \o Concat([i \in DOMAIN v.items |->
                                (IF i = 1 THEN <<>> ELSE <<",", " ">>)
                                   \o <<"\"">> \o v.items[i].k \o <<"\"">> \o <<":", " ">>
                                   \o json_dumps(v.items[i].v)])
                   \o <<"}">>

(***************************************************************************)
(* routers/search.py: result assembly                                      *)
(*                                                                         *)
(* A column value as the storage call hands it over is a record            *)
(* [type, utf8, text, value]: type is the Python type, text the characters *)
(* of a str or of a bytes that decodes as UTF-8 (utf8 FALSE: it does not), *)
(* value the JSON-like value of a native dict, list or number.             *)
(***************************************************************************)

RawNone == [type |-> "NoneType", utf8 |-> TRUE, text |-> <<>>, value |-> JNull]

RawDict(v) == [type |-> "dict", utf8 |-> TRUE, text |-> <<>>, value |-> v]

RawBytes(text, utf8) == [type |-> "bytes", utf8 |-> utf8, text |-> text, value |-> JNull]

RawStr(text) == [type |-> "str", utf8 |-> TRUE, text |-> text, value |-> JNull]

RawNative(v) == [type |-> "other", utf8 |-> TRUE, text |-> <<>>, value |-> v]

\* An Optional Python value: None, or the value v
Absent == [none |-> TRUE, v |-> JNull]

Present(v) == [none |-> FALSE, v |-> v]

\* What `try: return json.loads(text) except Exception: return None` gives;
\* the JSON text `null` loads as None
LoadsOrNone(text) ==
    LET r == json_loads(text)
    IN  IF r.ok /\ r.v.t # "null" THEN Present(r.v) ELSE Absent

_as_json(val) ==
    IF val.type = "NoneType" THEN Absent
    ELSE IF val.type = "dict" THEN Present(val.value)
    ELSE IF val.type = "bytes" THEN (IF val.utf8 THEN LoadsOrNone(val.text) ELSE Absent)
    ELSE IF val.type = "str" THEN LoadsOrNone(val.text)
    ELSE LoadsOrNone(json_dumps(val.value))

\* Hit.metadata: Optional[Dict[str, Any]] accepts None and a dict
HitMetadataValid(m) == m.none \/ m.v.t = "dict"

\* A storage row is the tuple (id, name, city, country, image_url, metadata,
\* distance); r[0] of the code is r[1] here.  Hit(...) of search_text and
\* search_hybrid for one row
Hit(r) ==
    [id |-> r[1], name |-> r[2], city |-> r[3], country |-> r[4],
     url |-> Strip(OrEmpty(r[5])), metadata |-> _as_json(r[6]), distance |-> r[7]]

\* Hit(...) of search_image for one row (id, name, iata, icao, logo_url,
\* metadata, distance): the codes are appended to the name
ImageHit(r) ==
    [id |-> r[1],
     name |-> r[2] \o Strip(<<" ", "(">> \o OrEmpty(r[3]) \o <<"/">> \o OrEmpty(r[4]) \o <<")">>),
     city |-> NULL, country |-> NULL,
     url |-> Strip(OrEmpty(r[5])), metadata |-> _as_json(r[6]), distance |-> r[7]]

\* The loop over the rows and RankedResult(count=len(hits), hits=hits).  A
\* Hit that does not validate raises out of the handler, which the framework
\* answers with status 500.
RankedResult(hits) == [status |-> 200, detail |-> "none", count |-> Len(hits), hits |-> hits]

Assemble(endpoint, rows_) ==
    IF \A i \in DOMAIN rows_ : HitMetadataValid(_as_json(rows_[i][6]))
    THEN RankedResult([i \in DOMAIN rows_ |->
                         IF endpoint = "image" THEN ImageHit(rows_[i]) ELSE Hit(rows_[i])])
    ELSE [status |-> 500, detail |-> "Internal Server Error", count |-> 0, hits |-> <<>>]

(***************************************************************************)
(* routers/search.py: embedding, validation and the weights                *)
(***************************************************************************)

\* settings.EMBEDDING_DIM is 512; the model keeps the vectors short
EMBEDDING_DIM == 2

\* A vector of n components, 1 at position k
UnitVec(n, k) == [i \in 1 .. n |-> IF i = k THEN 1 ELSE 0]

\* What model.encode may do: raise, or give a vector of the configured
\* length, or one shorter or longer
EncodeOutcomes ==
    { [raised |-> TRUE, vec |-> <<>>] }
       \cup { [raised |-> FALSE, vec |-> UnitVec(n, k)] :
                n \in { EMBEDDING_DIM - 1, EMBEDDING_DIM, EMBEDDING_DIM + 1 },
                k \in { 1, EMBEDDING_DIM } }

\* embed_text: the exception it raises ("none": it returns vec)
embed_text(enc) ==
    IF enc.raised THEN [exc |-> "Exception", vec |-> <<>>]
    ELSE IF Len(enc.vec) # EMBEDDING_DIM THEN [exc |-> "ValueError", vec |-> <<>>]
    ELSE [exc |-> "none", vec |-> enc.vec]

embed_image_bytes(enc) ==
    IF enc.raised THEN [exc |-> "Exception", vec |-> <<>>]
    ELSE IF Len(enc.vec) # EMBEDDING_DIM THEN [exc |-> "ValueError", vec |-> <<>>]
    ELSE [exc |-> "none", vec |-> enc.vec]

\* _validate_dim on a ravelled (1-D) vector: the status of the HTTPException
\* it raises, 0 when it returns
_validate_dim(vec) == IF Len(vec) # EMBEDDING_DIM THEN 400 ELSE 0

\* The try block around the text embedding.  It gives the calls made, the
\* status and detail of the rejection (0: none) and the vector.
TextEmbedPhase_unchecked(enc) ==
    [calls |-> <<"embed_text">>, status |-> 0, detail |-> "none", vec |-> enc.vec]

TextEmbedPhase_retry(enc) ==
    LET e == embed_text(enc)
    IN  IF e.exc # "none"
        THEN [calls |-> <<"embed_text", "embed_text">>, status |-> 400,
              detail |-> "Embedding error (text)", vec |-> <<>>]
        ELSE [calls |-> <<"embed_text">>, status |-> _validate_dim(e.vec),
              detail |-> "none", vec |-> e.vec]

TextEmbedPhase(enc) ==
    LET e == embed_text(enc)
    IN  IF e.exc # "none"
        THEN [calls |-> <<"embed_text">>, status |-> 400,
              detail |-> "Embedding error (text)", vec |-> <<>>]
        ELSE IF _validate_dim(e.vec) # 0
        THEN [calls |-> <<"embed_text">>, status |-> 400,
              detail |-> "embedding dim", vec |-> <<>>]
        ELSE [calls |-> <<"embed_text">>, status |-> 0, detail |-> "none", vec |-> e.vec]

\* The try block around the image embedding
ImageEmbedPhase(enc) ==
    LET e == embed_image_bytes(enc)
    IN  IF e.exc # "none"
        THEN [calls |-> <<"embed_image_bytes">>, status |-> 400,
              detail |-> "Embedding error (image)", vec |-> <<>>]
        ELSE IF _validate_dim(e.vec) # 0
        THEN [calls |-> <<"embed_image_bytes">>, status |-> 400,
              detail |-> "embedding dim", vec |-> <<>>]
        ELSE [calls |-> <<"embed_image_bytes">>, status |-> 0, detail |-> "none",
              vec |-> e.vec]

\* Weights are counted in units of 5e-10, so that a positive weight below
\* the floor 1e-9 of line 178 exists: the floor is 2 units and 1.0 is
\* 2 * 10^9 units.
EpsFloor == 2

One == 2000000000

\* A weight of None (the fields are Optional[float])
NoWeight == -1

Max(a, b) == IF a >= b THEN a ELSE b

\* max(0.0, min(1.0, w))
Clamp(w) == Max(0, Min(One, w))

\* Lines 176-179: the clamped weights and the denominator; the normalized
\* weights are wt / denom and wi / denom.
Normalize(weight_text, weight_image) ==
    LET wt == Clamp(weight_text)
        wi == Clamp(weight_image)
    IN  [wt |-> wt, wi |-> wi, denom |-> Max(wt + wi, EpsFloor)]

\* A vector of fractions num[c] / den.  The text vector as it is:
AsIs(vec) == [num |-> vec, den |-> 1]

\* wt * t_vec + wi * i_vec with the normalized weights
Blend(n, t, i) == [num |-> [c \in DOMAIN t |-> n.wt * t[c] + n.wi * i[c]], den |-> n.denom]

\* Lines 181-186 after the shape check: the vector of the query.  i is the
\* Optional image vector, <<>> for None.
CombinedVector_always_weighted(n, t, i) ==
    IF i # <<>> THEN Blend(n, t, i[1])
    ELSE [num |-> [c \in DOMAIN t |-> n.wt * t[c]], den |-> n.denom]

CombinedVector(n, t, i) == IF i # <<>> THEN Blend(n, t, i[1]) ELSE AsIs(t)

\* The status the handler answers with when the storage call raises
StorageFailure_as_rejection(exc) == 400

StorageFailure(exc) == 500

(***************************************************************************)
(* routers/search.py: requests and what the collaborators answer           *)
(***************************************************************************)

\* str.startswith
StartsWith(s, prefix) ==
    /\ Len(s) >= Len(prefix)
    /\ SubSeq(s, 1, Len(prefix)) = prefix

\* Truth value of an Optional[str]
NonEmpty(s) == s # NULL /\ s # <<>>

\* base64.b64decode of a text of base64 characters and padding: it raises
\* on a text whose length is not a multiple of 4
b64decode_raises(s) == Len(s) % 4 # 0

\* Bodies of POST /search/text (k, when omitted, is 1000)
TextBodies ==
    { [NoBody EXCEPT !.endpoint = "text", !.query = q, !.k = 1000, !.filters = f] :
        q \in { <<"g","l","a","s","s">>, <<"a","i","r","p","o","r","t","s"," ","i","n"," ","A","s","i","a">> },
        f \in { <<>>, << [country |-> Str(<<"I","n","d","i","a">>)] >> } }

\* Uploads of POST /search/image (k, when omitted, is 12)
ImageUploads ==
    { [NoBody EXCEPT !.endpoint = "image", !.k = 12, !.content_type = c, !.has_logo = h] :
        c \in { NULL, <<>>, <<"i","m","a","g","e","/","p","n","g">>, <<"t","e","x","t","/","c","s","v">> },
        h \in BOOLEAN }

\* weight_text and weight_image of a hybrid body, in units of 5e-10: each
\* None or in [0, 1].  The sums stay below 2^31.
Half == One \div 2

WeightPairs ==
    { <<0, 0>>, <<1, 0>>, <<0, 1>>, <<1, 1>>, <<Half, Half>>, <<One, 0>>, <<0, One>>,
      <<NoWeight, Half>> }

\* image_base64 of a hybrid body: None, empty, a padded text, a text with
\* incorrect padding
ImageTexts == { NULL, <<>>, <<"a","Q","=","=">>, <<"a","Q","=">> }

\* Bodies of POST /search/hybrid
HybridBodies ==
    { [NoBody EXCEPT !.endpoint = "hybrid", !.query = <<"g","l","a","s","s">>, !.k = 1000,
                     !.image_base64 = b, !.weight_text = w[1], !.weight_image = w[2]] :
        b \in ImageTexts, w \in WeightPairs }

\* Metadata column values of a row
GlassObject == JDict(<< [key |-> <<"s","t","y","l","e">>, value |-> JStr(<<"g","l","a","s","s">>)] >>)

ObjectText ==
    <<"{", "\"", "s","t","y","l","e", "\"", ":", " ", "\"", "g","l","a","s","s", "\"", "}">>

\* Rows (id, name, city or iata, country or icao, image_url or logo_url,
\* metadata, distance) the storage call can return
StorageRows ==
    { <<1, <<"C","h","a","n","g","i">>, <<"S","G">>, <<"S","I","N">>, <<" ","u",".","p","n","g"," ">>,
        RawDict(GlassObject), 5>>,
      <<2, <<"A","g","r","a">>, NULL, NULL, NULL, RawNone, 9>>,
      <<3, <<"O","s","l","o">>, <<"N","O">>, NULL, <<>>, RawStr(ObjectText), 0>>,
      <<4, <<"L","i","m","a">>, NULL, <<"L","I","M">>, <<"v",".","j","p","g">>, RawBytes(ObjectText, TRUE), 7>>,
      <<5, <<"B","o","n","n">>, NULL, NULL, NULL, RawBytes(<<>>, FALSE), 7>>,
      <<6, <<"R","o","m","e">>, NULL, NULL, NULL, RawStr(<<"{","b","a","d">>), 8>>,
      <<7, <<"D","o","h","a">>, NULL, NULL, NULL, RawStr(<<"[","1",","," ","2","]">>), 8>>,
      <<8, <<"B","a","k","u">>, NULL, NULL, NULL, RawNative(JNum(7)), 8>>,
      <<9, <<"N","i","c","e">>, NULL, NULL, NULL, RawBytes(<<"\"","a","b","c","\"">>, TRUE), 8>> }

\* The longest result the storage call returns in the model
MaxHits == 2

StorageResults == UNION { [1 .. n -> StorageRows] : n \in 0 .. MaxHits }

\* What the storage call may do: return rows, raise mariadb.Error, raise
\* another exception
StorageOutcomes ==
    { [exc |-> "none", rows |-> r] : r \in StorageResults }
       \cup { [exc |-> e, rows |-> <<>>] : e \in { "mariadb.Error", "Exception" } }

(***************************************************************************)
(* routers/search.py: the handlers                                         *)
(*                                                                         *)
(* rpc is the position of the handler: "idle", "image" (before the image   *)
(* embedding of a hybrid request), "query" (before the weights and the     *)
(* storage call), "done" (the response is decided).  calls lists the       *)
(* collaborators invoked so far, encoded what the encoder did at each       *)
(* embedding, db_rows the rows the storage call returned, failure the      *)
(* phase that failed.                                                      *)
(***************************************************************************)

Rejected(status, detail) == [status |-> status, detail |-> detail, count |-> 0, hits |-> <<>>]

\* The phase in which an embedding failed
EmbedFailure(enc) ==
    IF enc.raised THEN "embedding"
    ELSE IF Len(enc.vec) # EMBEDDING_DIM THEN "dimension"
    ELSE "none"

\* POST /search/text up to the storage call
search_text ==
    /\ rpc = "idle"
    /\ \E b \in TextBodies, enc \in EncodeOutcomes :
         LET ph == TextEmbedPhase(enc)
         IN  /\ body' = b
             /\ calls' = ph.calls
             /\ encoded' = << enc >>
             /\ failure' = EmbedFailure(enc)
             /\ IF ph.status # 0
                THEN /\ rpc' = "done"
                     /\ resp' = Rejected(ph.status, ph.detail)
                     /\ t_vec' = <<>>
                ELSE /\ rpc' = "query"
                     /\ resp' = NoResp
                     /\ t_vec' = ph.vec
    /\ UNCHANGED <<i_vec, norm, storage_arg, db_rows>>
    /\ UNCHANGED <<queryVars, serviceVars, metricsVars, planVars>>

\* POST /search/image up to the storage call
search_image ==
    /\ rpc = "idle"
    /\ \E b \in ImageUploads, enc \in EncodeOutcomes :
         LET ph == ImageEmbedPhase(enc)
         IN  /\ body' = b
             /\ IF ~ NonEmpty(b.content_type) \/ ~ StartsWith(b.content_type, <<"i","m","a","g","e","/">>)
                THEN /\ rpc' = "done"
                     /\ resp' = Rejected(400, "Please upload an image file.")
                     /\ calls' = <<>>
                     /\ encoded' = <<>>
                     /\ failure' = "content type"
                     /\ i_vec' = <<>>
                ELSE /\ calls' = ph.calls
                     /\ encoded' = << enc >>
                     /\ failure' = EmbedFailure(enc)
                     /\ IF ph.status # 0
                        THEN /\ rpc' = "done"
                             /\ resp' = Rejected(ph.status, ph.detail)
                             /\ i_vec' = <<>>
                        ELSE /\ rpc' = "query"
                             /\ resp' = NoResp
                             /\ i_vec' = << ph.vec >>
    /\ UNCHANGED <<t_vec, norm, storage_arg, db_rows>>
    /\ UNCHANGED <<queryVars, serviceVars, metricsVars, planVars>>

\* POST /search/hybrid, step 1: the text embedding
search_hybrid ==
    /\ rpc = "idle"
    /\ \E b \in HybridBodies, enc \in EncodeOutcomes :
         LET ph == TextEmbedPhase(enc)
         IN  /\ body' = b
             /\ calls' = ph.calls
             /\ encoded' = << enc >>
             /\ failure' = EmbedFailure(enc)
             /\ IF ph.status # 0
                THEN /\ rpc' = "done"
                     /\ resp' = Rejected(ph.status, ph.detail)
                     /\ t_vec' = <<>>
                ELSE /\ rpc' = IF NonEmpty(b.image_base64) THEN "image" ELSE "query"
                     /\ resp' = NoResp
                     /\ t_vec' = ph.vec
    /\ UNCHANGED <<i_vec, norm, storage_arg, db_rows>>
    /\ UNCHANGED <<queryVars, serviceVars, metricsVars, planVars>>

\* POST /search/hybrid, step 2: the image embedding
hybrid_image ==
    /\ rpc = "image"
    /\ \E enc \in EncodeOutcomes :
         LET ph == ImageEmbedPhase(enc)
         IN  IF b64decode_raises(body.image_base64)
             THEN /\ rpc' = "done"
                  /\ resp' = Rejected(400, "Image embedding error")
                  /\ failure' = "base64"
                  /\ UNCHANGED <<calls, encoded, i_vec>>
             ELSE /\ calls' = calls \o ph.calls
                  /\ encoded' = Append(encoded, enc)
                  /\ failure' = EmbedFailure(enc)
                  /\ IF ph.status # 0
                     THEN /\ rpc' = "done"
                          /\ resp' = Rejected(ph.status, ph.detail)
                          /\ i_vec' = <<>>
                     ELSE /\ rpc' = "query"
                          /\ resp' = NoResp
                          /\ i_vec' = << ph.vec >>
    /\ UNCHANGED <<body, t_vec, norm, storage_arg, db_rows>>
    /\ UNCHANGED <<queryVars, serviceVars, metricsVars, planVars>>

\* The arguments of the storage call of each endpoint
StorageCall(b, vec) ==
    IF b.endpoint = "image"
    THEN [fn |-> "search_airlines_by_image", vec |-> vec, k |-> b.k,
          filters |-> IF b.has_logo THEN << [has_logo |-> Bool(TRUE)] >> ELSE <<>>,
          query_text |-> NULL]
    ELSE [fn |-> "search_airports_by_text", vec |-> vec, k |-> b.k,
          filters |-> b.filters, query_text |-> b.query]

\* The storage call and the assembly of the response, with the query
\* vector vec
Query(vec) ==
    \E out \in StorageOutcomes :
      /\ calls' = Append(calls, "storage")
      /\ storage_arg' = << StorageCall(body, vec) >>
      /\ db_rows' = out.rows
      /\ IF out.exc # "none"
         THEN /\ resp' = Rejected(StorageFailure(out.exc),
                                  IF out.exc = "mariadb.Error" THEN "DB error" ELSE "Server error")
              /\ failure' = "storage"
         ELSE /\ resp' = Assemble(body.endpoint, out.rows)
              /\ failure' = IF resp'.status = 200 THEN "none" ELSE "assembly"

\* The rest of each handler: for a hybrid request the weights, the shape
\* check and the combination; then the storage call and the assembly
call_storage ==
    /\ rpc = "query"
    /\ rpc' = "done"
    /\ IF body.endpoint = "text"
       THEN /\ Query(AsIs(t_vec))
            /\ UNCHANGED norm
       ELSE IF body.endpoint = "image"
       THEN /\ Query(AsIs(i_vec[1]))
            /\ UNCHANGED norm
       ELSE IF body.weight_text = NoWeight \/ body.weight_image = NoWeight
       THEN \* float(None) raises TypeError outside every try block
            /\ resp' = Rejected(500, "Internal Server Error")
            /\ failure' = "weights"
            /\ UNCHANGED <<calls, norm, storage_arg, db_rows>>
       ELSE LET n == Normalize(body.weight_text, body.weight_image)
            IN  /\ norm' = n
                /\ IF i_vec # <<>> /\ Len(i_vec[1]) # Len(t_vec)
                   THEN /\ resp' = Rejected(400, "Image/text embedding shape mismatch.")
                        /\ failure' = "shape"
                        /\ UNCHANGED <<calls, storage_arg, db_rows>>
                   ELSE Query(CombinedVector(n, t_vec, i_vec))
    /\ UNCHANGED <<body, t_vec, i_vec, encoded>>
    /\ UNCHANGED <<queryVars, serviceVars, metricsVars, planVars>>

\* The response is sent; the next request starts from scratch
Respond ==
    /\ rpc = "done"
    /\ rpc' = "idle"
    /\ body' = NoBody
    /\ t_vec' = <<>>
    /\ i_vec' = <<>>
    /\ calls' = <<>>
    /\ encoded' = <<>>
    /\ norm' = NoNorm
    /\ storage_arg' = <<>>
    /\ db_rows' = <<>>
    /\ resp' = NoResp
    /\ failure' = "none"
    /\ UNCHANGED <<queryVars, serviceVars, metricsVars, planVars>>

RouterNext ==
    search_text \/ search_image \/ search_hybrid \/ hybrid_image \/ call_storage \/ Respond

RouterSpec == Init /\ [][RouterNext]_vars

(***************************************************************************)
(* The hybrid combiner                                                     *)
(***************************************************************************)

Hybrid == body.endpoint = "hybrid"

\* The handler has decided its response
Done == rpc = "done"

\* The weights of the request were normalized (lines 174-179 ran)
Normalized == Done /\ Hybrid /\ norm # NoNorm

\* The storage call was made
StorageCalled == storage_arg # <<>>

\* The vector of fractions v has the values of the vector t
SameVector(v, t) ==
    /\ DOMAIN v.num = DOMAIN t
    /\ \A c \in DOMAIN t : v.num[c] = v.den * t[c]

\* C13: for weights in [0,1] with wt + wi > 0, sums below the floor 1e-9
\* included, the normalized weights wt / denom and wi / denom are both
\* non-negative and sum to 1.
C13_WeightsSumToOne ==
    (Normalized /\ body.weight_text + body.weight_image > 0)
        => /\ norm.denom > 0
           /\ norm.wt >= 0
           /\ norm.wi >= 0
           /\ norm.wt + norm.wi = norm.denom

\* The same for the sums that reach the floor: there the weights do sum to 1
C13_AtOrAboveFloor ==
    (Normalized /\ body.weight_text + body.weight_image >= EpsFloor)
        => /\ norm.denom > 0
           /\ norm.wt >= 0
           /\ norm.wi >= 0
           /\ norm.wt + norm.wi = norm.denom

\* A request whose positive weights sum to less than the floor
C13_BelowFloor ==
    /\ Normalized
    /\ body.weight_text + body.weight_image > 0
    /\ body.weight_text + body.weight_image < EpsFloor

\* C14: with an image vector and weights that are both zero or sum to less
\* than the floor, the vector handed to storage is the text vector.
C14_TextOnlyFallback ==
    (Done /\ Hybrid /\ StorageCalled /\ i_vec # <<>>
          /\ body.weight_text + body.weight_image < EpsFloor)
        => SameVector(storage_arg[1].vec, t_vec)

\* With an image vector and both weights zero the storage call gets the
\* zero vector
C14_ZeroVector ==
    /\ Done /\ Hybrid /\ StorageCalled /\ i_vec # <<>>
    /\ body.weight_text = 0 /\ body.weight_image = 0
    /\ \A c \in DOMAIN t_vec : storage_arg[1].vec.num[c] = 0
    /\ \E c \in DOMAIN t_vec : t_vec[c] # 0

\* C15: without an image (image_base64 None or empty) the vector handed to
\* storage is the text vector unchanged, whatever the weights.
C15_NoImageTextVector ==
    (Done /\ Hybrid /\ StorageCalled /\ ~ NonEmpty(body.image_base64))
        => /\ i_vec = <<>>
           /\ SameVector(storage_arg[1].vec, t_vec)

\* No image, weights (0, 0): the storage call is made
C15_Witness ==
    /\ Done /\ Hybrid /\ StorageCalled
    /\ body.image_base64 = <<>>
    /\ body.weight_text = 0 /\ body.weight_image = 0

\* image_base64 None, weights (0, 1)
C15_ImageWeightOnly ==
    /\ Done /\ Hybrid /\ StorageCalled
    /\ body.image_base64 = NULL
    /\ body.weight_text = 0 /\ body.weight_image = One

(***************************************************************************)
(* Dimensions, failures and calls                                          *)
(***************************************************************************)

\* The encoder gave a vector whose length is not EMBEDDING_DIM
WrongLength(e) == ~ e.raised /\ Len(e.vec) # EMBEDDING_DIM

\* The embedding calls of the request, in the order made
EmbedCalls == SelectSeq(calls, LAMBDA c : c # "storage")

C16_ShortText ==
    /\ Done /\ body.endpoint = "text"
    /\ Len(encoded) = 1 /\ ~ encoded[1].raised
    /\ Len(encoded[1].vec) = EMBEDDING_DIM - 1
    /\ resp.status = 400

\* An image request that reaches storage
C16_ImageStored ==
    /\ Done /\ body.endpoint = "image" /\ StorageCalled

\* The phases whose failures are validation failures
ValidationPhases == { "content type", "embedding", "dimension", "base64", "shape" }

\* C17: a failure of an embedding, of a dimension check, of the base64
\* decoding or of the shape check ends the request with status 400 and
\* without a storage call; a failure raised by the storage call ends it with
\* status 500; no storage failure is answered 400, no validation failure 500.
C17_DistinctFailures ==
    Done =>
      /\ (failure \in ValidationPhases) =>
             /\ resp.status = 400
             /\ ~ StorageCalled
             /\ \A j \in DOMAIN calls : calls[j] # "storage"
      /\ (failure = "storage") => (resp.status = 500 /\ StorageCalled)
      /\ (resp.status = 400) => (failure \in ValidationPhases)
      /\ (resp.status = 500) => (failure \notin ValidationPhases /\ failure # "none")
      /\ (\E j \in DOMAIN encoded : encoded[j].raised \/ WrongLength(encoded[j]))
             => resp.status = 400

\* The storage call of a hybrid request with an image raises mariadb.Error
C17_Witness ==
    /\ Done /\ Hybrid
    /\ failure = "storage"
    /\ resp = Rejected(500, "DB error")
    /\ i_vec # <<>>

\* image_base64 does not decode
C17_Base64 ==
    /\ Done /\ Hybrid
    /\ failure = "base64"
    /\ resp.status = 400
    /\ calls = <<"embed_text">>

\* The encoder raises in POST /search/text
C17_EncoderRaises ==
    /\ Done /\ body.endpoint = "text"
    /\ encoded[1].raised
    /\ resp.status = 400

\* The place of a collaborator in the order of the handlers
Rank(c) == IF c = "embed_text" THEN 1 ELSE IF c = "embed_image_bytes" THEN 2 ELSE 3

\* Each collaborator at most once, text embedding before image embedding
\* before storage
OnceInOrder(cs) == \A i, j \in DOMAIN cs : i < j => Rank(cs[i]) < Rank(cs[j])

\* C18: within a request the text embedding, the image embedding and the
\* storage query are each made at most once, in that order, and as many
\* embeddings are asked for as the encoder is run; once one of them has
\* failed the request is decided, and the step after a decided request makes
\* no call: it starts the next request with no calls made.
C18_NoRetries ==
    /\ [](/\ OnceInOrder(calls)
          /\ Len(EmbedCalls) = Len(encoded)
          /\ (failure # "none") => Done)
    /\ [][Done => (rpc' = "idle" /\ calls' = <<>> /\ encoded' = <<>>)]_vars
    /\ [][(~ Done /\ rpc # "idle") =>
             (/\ Len(calls') = Len(calls) + 1
              /\ SubSeq(calls', 1, Len(calls)) = calls) \/ calls' = calls]_vars

\* Text embedding, image embedding and storage call were each made, and the
\* storage call failed
C18_Witness ==
    /\ Done
    /\ calls = <<"embed_text", "embed_image_bytes", "storage">>
    /\ failure = "storage"

\* The text embedding of a hybrid request with an image fails: no image
\* embedding, no storage call
C18_FailedFirst ==
    /\ Done /\ Hybrid
    /\ NonEmpty(body.image_base64)
    /\ failure = "embedding"
    /\ calls = <<"embed_text">>

(***************************************************************************)
(* Result assembly                                                         *)
(***************************************************************************)

\* The storage call returned rows
RowsReturned == Done /\ StorageCalled /\ failure # "storage"

\* C19: whatever the metadata column of a returned row holds (nothing, a
\* native mapping, bytes, text, valid or invalid JSON, JSON of a list, a
\* number or a string), the request does not fail and the metadata of every
\* Hit is a mapping or absent.
C19_MetadataNeverFatal ==
    RowsReturned =>
      /\ resp.status = 200
      /\ \A i \in DOMAIN resp.hits :
           resp.hits[i].metadata.none \/ resp.hits[i].metadata.v.t = "dict"

\* What does hold: metadata that is absent, a mapping, or not decodable
\* (bytes that are not UTF-8, text that is not JSON) is never fatal, and the
\* metadata of a Hit that was built is a mapping or absent.
C19_UndecodableIsAbsent ==
    /\ RowsReturned =>
         \A i \in DOMAIN resp.hits :
           resp.hits[i].metadata.none \/ resp.hits[i].metadata.v.t = "dict"
    /\ (RowsReturned /\ \A i \in DOMAIN db_rows :
                           \/ db_rows[i][6].type \in { "NoneType", "dict" }
                           \/ (db_rows[i][6].type = "bytes" /\ ~ db_rows[i][6].utf8)
                           \/ (/\ db_rows[i][6].type \in { "bytes", "str" }
                               /\ ~ json_loads(db_rows[i][6].text).ok))
         => resp.status = 200

\* The one row returned holds the JSON text of a list in its metadata
\* column, and the request fails
C19_ListMetadata ==
    /\ RowsReturned
    /\ Len(db_rows) = 1
    /\ db_rows[1][6] = RawStr(<<"[","1",","," ","2","]">>)
    /\ resp.status = 500

\* C20: when the embedding and the storage call of POST /search/text
\* succeed, the answer is 200 with one Hit per returned row in the order
\* returned, count the number of hits, each hit with the id, name and
\* distance of its row, and the empty string for a missing image URL.
C20_OneHitPerRow ==
    (RowsReturned /\ body.endpoint = "text") =>
      /\ resp.status = 200
      /\ resp.count = Len(resp.hits)
      /\ Len(resp.hits) = Len(db_rows)
      /\ \A i \in DOMAIN db_rows :
           /\ resp.hits[i].id = db_rows[i][1]
           /\ resp.hits[i].name = db_rows[i][2]
           /\ resp.hits[i].distance = db_rows[i][7]
           /\ (db_rows[i][5] = NULL) => (resp.hits[i].url = <<>>)

\* The same holds of every answer 200: the rows whose metadata validates
C20_WhenAnswered ==
    (RowsReturned /\ body.endpoint = "text" /\ resp.status = 200) =>
      /\ resp.count = Len(resp.hits)
      /\ Len(resp.hits) = Len(db_rows)
      /\ \A i \in DOMAIN db_rows :
           /\ resp.hits[i].id = db_rows[i][1]
           /\ resp.hits[i].name = db_rows[i][2]
           /\ resp.hits[i].distance = db_rows[i][7]
           /\ (db_rows[i][5] = NULL) => (resp.hits[i].url = <<>>)

\* Two rows as in the smoke test, the second without an image URL, answered
\* 200 with count 2
C20_SmokeTest ==
    /\ RowsReturned /\ body.endpoint = "text"
    /\ Len(db_rows) = 2
    /\ db_rows[1][6].type = "dict"
    /\ db_rows[2][5] = NULL
    /\ resp.status = 200 /\ resp.count = 2
    /\ resp.hits[2].url = <<>>

\* A text request whose second row holds a JSON number in its metadata
\* column: no hits are returned
C20_NumberMetadata ==
    /\ RowsReturned /\ body.endpoint = "text"
    /\ Len(db_rows) = 2
    /\ db_rows[2][6] = RawNative(JNum(7))
    /\ resp.status = 500

(***************************************************************************)
(* The process: config.py, embeddings.py, db.py, routers/health.py         *)
(*                                                                         *)
(* The handlers are plain functions, which the framework runs on worker    *)
(* threads; th[t] is the request thread t serves: its handler op, its      *)
(* position pc, the model instance it uses, its connection (conn, the pool *)
(* it came from, the close calls made on it), the outcome of its with      *)
(* block, the value of ping, the distance function of its statement and    *)
(* its response.  _model and _pool number the instances: 0 is None.        *)
(* constructed and pools_made count the SentenceTransformer and            *)
(* ConnectionPool objects made so far.                                     *)
(***************************************************************************)

\* The default of VECTOR_DISTANCE_FN and the value _distance_expr falls back to
DefaultDistanceFn ==
    <<"V","E","C","_","D","I","S","T","A","N","C","E","_","C","O","S","I","N","E">>

\* The settings a process can be started with: VECTOR_DISTANCE_FN (a str)
\* and DB_USE_POOL
EnvConfigs ==
    { [VECTOR_DISTANCE_FN |-> DefaultDistanceFn, DB_USE_POOL |-> TRUE],
      [VECTOR_DISTANCE_FN |-> <<"S","L","E","E","P">>, DB_USE_POOL |-> TRUE],
      [VECTOR_DISTANCE_FN |-> <<"V","E","C","_","A">>, DB_USE_POOL |-> FALSE],
      [VECTOR_DISTANCE_FN |-> <<>>, DB_USE_POOL |-> FALSE] }

\* config.py line 56: the value that makes the process print a warning
StartupWarns(configured) == ~ StartsWith(configured, <<"V","E","C","_">>)

\* _distance_expr line 53: the function name put into the statement
DistanceFn(configured) ==
    Strip(IF configured = <<>> THEN DefaultDistanceFn ELSE configured)

\* The distance functions of MariaDB, as character strings
VecFunctions ==
    { DefaultDistanceFn,
      <<"V","E","C","_","D","I","S","T","A","N","C","E","_","E","U","C","L","I","D","E","A","N">>,
      <<"V","E","C","_","D","I","S","T","A","N","C","E">> }

\* The handlers
Handlers == { "healthz", "readyz", "search" }

\* Where a handler begins: healthz answers at once, readyz calls ping, a
\* search embeds its query first
FirstStep_healthz_pings(op) == IF op = "search" THEN "gm_check" ELSE "rc_check"

FirstStep(op) ==
    IF op = "healthz" THEN "respond"
    ELSE IF op = "readyz" THEN "rc_check"
    ELSE "gm_check"

\* The body of healthz
healthz == [service |-> "skyvision-backend", ok |-> TRUE]

\* {"service": ..., **v}: unpacking needs a mapping, and raises TypeError on
\* any other value
UnpackRaises(v) == v.t # "dict"

\* get_conn: the finally clause runs however the block ended
ClosesOnExit_only_on_success(block) == block = "ok"

ClosesOnExit(block) == TRUE

\* get_conn: an exception of close is swallowed, the block's outcome stays
Outcome(block, close_raised) == block

\* The process starts: the settings are read and checked
Boot ==
    /\ ~ env.started
    /\ \E c \in EnvConfigs :
         env' = [VECTOR_DISTANCE_FN |-> c.VECTOR_DISTANCE_FN, DB_USE_POOL |-> c.DB_USE_POOL,
                 started |-> TRUE, warned |-> StartupWarns(c.VECTOR_DISTANCE_FN)]
    /\ UNCHANGED <<db_up, _model, _pool, constructed, pools_made, th>>
    /\ UNCHANGED <<queryVars, routerVars, metricsVars, planVars>>

\* The database goes down or comes back
db_toggle ==
    /\ env.started
    /\ db_up' = ~ db_up
    /\ UNCHANGED <<env, _model, _pool, constructed, pools_made, th>>
    /\ UNCHANGED <<queryVars, routerVars, metricsVars, planVars>>

\* Thread t at position p
At(t, p) == env.started /\ th[t].pc = p

\* What a step of a thread leaves alone but for the named variables
ThreadOnly == UNCHANGED <<env, db_up, _model, _pool, constructed, pools_made>>

OtherSpecs == UNCHANGED <<queryVars, routerVars, metricsVars, planVars>>

\* A request arrives at thread t
Start(t) ==
    /\ At(t, "idle")
    /\ \E op \in Handlers :
         th' = [th EXCEPT ![t] = [NoThread EXCEPT !.op = op, !.pc = FirstStep(op)]]
    /\ ThreadOnly
    /\ OtherSpecs

\* _get_model line 13: if _model is None
gm_check(t) ==
    /\ At(t, "gm_check")
    /\ th' = [th EXCEPT ![t].pc = IF _model = 0 THEN "gm_build" ELSE "gm_return"]
    /\ ThreadOnly
    /\ OtherSpecs

\* _get_model line 15: _model = SentenceTransformer(...)
gm_build(t) ==
    /\ At(t, "gm_build")
    /\ constructed' = constructed + 1
    /\ _model' = constructed + 1
    /\ th' = [th EXCEPT ![t].pc = "gm_return"]
    /\ UNCHANGED <<env, db_up, _pool, pools_made>>
    /\ OtherSpecs

\* _get_model line 16: return _model; the query is embedded with it, and the
\* statement gets its distance function
gm_return(t) ==
    /\ At(t, "gm_return")
    /\ th' = [th EXCEPT ![t].model = _model, ![t].pc = "rc_check",
                        ![t].fn = DistanceFn(env.VECTOR_DISTANCE_FN)]
    /\ ThreadOnly
    /\ OtherSpecs

\* What the handler makes of an exception of raw_connection or of the block:
\* ping returns False, a search answers 500
Failed(r) ==
    IF r.op = "readyz"
    THEN [r EXCEPT !.ping = "False", !.pc = "respond"]
    ELSE [r EXCEPT !.status = 500, !.pc = "done"]

\* raw_connection line 41: if _pool is None
rc_check(t) ==
    /\ At(t, "rc_check")
    /\ th' = [th EXCEPT ![t].pc = IF _pool = 0 THEN "init_check" ELSE "obtain"]
    /\ ThreadOnly
    /\ OtherSpecs

\* init_pool line 24: if _pool is not None: return
init_check(t) ==
    /\ At(t, "init_check")
    /\ th' = [th EXCEPT ![t].pc = IF _pool # 0 THEN "obtain" ELSE "create_pool"]
    /\ ThreadOnly
    /\ OtherSpecs

\* init_pool lines 26-37.  mariadb.ConnectionPool connects when it is made,
\* so it raises while the database is down; made under a name that is
\* taken, it raises or gives a second pool.
create_pool(t) ==
    /\ At(t, "create_pool")
    /\ IF ~ env.DB_USE_POOL
       THEN /\ _pool' = 0
            /\ th' = [th EXCEPT ![t].pc = "obtain"]
            /\ UNCHANGED pools_made
       ELSE \E raises \in BOOLEAN :
              /\ raises => (~ db_up \/ pools_made > 0)
              /\ ~ db_up => raises
              /\ IF raises
                 THEN /\ th' = [th EXCEPT ![t] = Failed(th[t])]
                      /\ UNCHANGED <<_pool, pools_made>>
                 ELSE /\ pools_made' = pools_made + 1
                      /\ _pool' = pools_made + 1
                      /\ th' = [th EXCEPT ![t].pc = "obtain"]
    /\ UNCHANGED <<env, db_up, _model, constructed>>
    /\ OtherSpecs

\* raw_connection lines 45-48: a connection of the pool, or a direct one
obtain(t) ==
    /\ At(t, "obtain")
    /\ IF db_up
       THEN th' = [th EXCEPT ![t].conn = "open", ![t].pool = _pool, ![t].pc = "execute"]
       ELSE th' = [th EXCEPT ![t] = Failed(th[t])]
    /\ ThreadOnly
    /\ OtherSpecs

\* The with block: cur.execute and the fetch.  SELECT 1 works when the
\* database is up; a search statement needs a distance function MariaDB has.
execute(t) ==
    /\ At(t, "execute")
    /\ LET works == db_up /\ (th[t].op = "search" => th[t].fn \in VecFunctions)
       IN  th' = [th EXCEPT ![t].block = IF works THEN "ok" ELSE "raised", ![t].pc = "exit"]
    /\ ThreadOnly
    /\ OtherSpecs

\* The block is left: get_conn closes the connection, swallowing what close
\* raises; then ping returns, or the search returns its rows or raises
exit(t) ==
    /\ At(t, "exit")
    /\ \E close_raised \in BOOLEAN :
         LET r == th[t]
             closed == IF ClosesOnExit(r.block)
                       THEN [r EXCEPT !.conn = "closed", !.closes = r.closes + 1]
                       ELSE r
         IN  th' = [th EXCEPT ![t] =
                      IF Outcome(r.block, close_raised) = "ok"
                      THEN IF r.op = "readyz"
                           THEN [closed EXCEPT !.ping = "True", !.pc = "respond"]
                           ELSE [closed EXCEPT !.status = 200, !.pc = "done"]
                      ELSE Failed(closed)]
    /\ ThreadOnly
    /\ OtherSpecs

\* healthz line 9 and readyz line 14
respond(t) ==
    /\ At(t, "respond")
    /\ IF th[t].op = "healthz"
       THEN th' = [th EXCEPT ![t].status = 200, ![t].body = << healthz >>, ![t].pc = "done"]
       ELSE IF UnpackRaises(Bool(th[t].ping = "True"))
       THEN th' = [th EXCEPT ![t].status = 500, ![t].pc = "done"]
       ELSE th' = [th EXCEPT ![t].status = 200,
                             ![t].body = << [service |-> "skyvision-backend",
                                             ok |-> th[t].ping = "True"] >>,
                             ![t].pc = "done"]
    /\ ThreadOnly
    /\ OtherSpecs

\* The response is sent
Finish(t) ==
    /\ At(t, "done")
    /\ th' = [th EXCEPT ![t] = NoThread]
    /\ ThreadOnly
    /\ OtherSpecs

ServiceNext ==
    \/ Boot
    \/ db_toggle
    \/ \E t \in Threads :
         \/ Start(t) \/ gm_check(t) \/ gm_build(t) \/ gm_return(t)
         \/ rc_check(t) \/ init_check(t) \/ create_pool(t) \/ obtain(t)
         \/ execute(t) \/ exit(t) \/ respond(t) \/ Finish(t)

ServiceSpec == Init /\ [][ServiceNext]_vars

(***************************************************************************)
(* Health endpoints, settings and the module-level singletons              *)
(***************************************************************************)

\* Thread t has answered the request it serves
Answered(t) == th[t].pc = "done"

\* C21: GET /healthz answers 200 with service 'skyvision-backend' and an
\* 'ok' field whatever the state of the database and of the pool, and a
\* thread serving it neither initializes the pool nor takes a connection.
C21_HealthzAlwaysOk ==
    /\ [](\A t \in Threads :
            th[t].op = "healthz" =>
              /\ th[t].pc \in { "respond", "done" }
              /\ th[t].conn = "none"
              /\ Answered(t) =>
                   /\ th[t].status = 200
                   /\ th[t].body # <<>>
                   /\ th[t].body[1].service = "skyvision-backend"
                   /\ "ok" \in DOMAIN th[t].body[1])
    /\ [][\A t \in Threads :
            (th[t].op = "healthz" /\ th'[t] # th[t]) =>
              /\ _pool' = _pool
              /\ pools_made' = pools_made
              /\ th'[t].conn = "none"
              /\ th'[t].pc \in { "done", "idle" }]_vars

\* healthz has answered while the database is down and no pool was made
C21_Witness ==
    \E t \in Threads :
      /\ th[t].op = "healthz" /\ Answered(t) /\ th[t].status = 200
      /\ ~ db_up
      /\ _pool = 0

\* healthz has answered while the other thread holds a connection of the pool
C21_PoolInUse ==
    \E t, u \in Threads :
      /\ th[t].op = "healthz" /\ Answered(t)
      /\ th[u].conn = "open" /\ th[u].pool # 0

\* C22: the distance function of every statement is a member of the fixed
\* allow-list (the vector distance functions MariaDB has, VecFunctions),
\* which is checked when the process starts: a configured
\* VECTOR_DISTANCE_FN outside the allow-list reaches no statement.
C22_AllowListedDistanceFn ==
    /\ env.started => DistanceFn(env.VECTOR_DISTANCE_FN) \in VecFunctions
    /\ \A t \in Threads : th[t].fn # NULL => th[t].fn \in VecFunctions

\* The process was started with VECTOR_DISTANCE_FN = SLEEP, printed its
\* warning, and a statement with SLEEP(embedding, VEC_FromText(?)) is executed
C22_Sleep ==
    \E t \in Threads :
      /\ env.warned
      /\ th[t].pc = "exit"
      /\ th[t].fn = <<"S","L","E","E","P">>

\* A name that is no function of MariaDB passes the start without a warning
C22_Unwarned ==
    \E t \in Threads :
      /\ ~ env.warned
      /\ th[t].fn # NULL /\ th[t].fn \notin VecFunctions

\* C23: under every interleaving of requests that arrive before the model
\* is loaded, the model is constructed at most once and every request uses
\* that one instance.
C23_ModelConstructedOnce ==
    /\ constructed <= 1
    /\ \A t \in Threads : th[t].model # 0 => th[t].model = 1

\* Two instances were constructed and two requests in progress use different
\* ones
C23_TwoInstances ==
    /\ constructed = 2
    /\ \E t, u \in Threads : th[t].model = 1 /\ th[u].model = 2

\* Once _model is set no thread constructs another: the race needs two
\* requests that both test _model before either has set it
C23_OnlyByFirstRace ==
    [][(_model # 0 /\ \A t \in Threads : th[t].pc # "gm_build") => constructed' = constructed]_vars

\* C26: with pooling enabled, under every interleaving of concurrent first
\* calls of raw_connection / init_pool the pool 'skyvision' is created at
\* most once (no call sets out to create it when it exists) and every call
\* takes its connection from that pool.
C26_SinglePool ==
    env.DB_USE_POOL =>
      /\ pools_made <= 1
      /\ \A t \in Threads : th[t].pc = "create_pool" => pools_made = 0
      /\ \A t \in Threads : th[t].conn = "open" => th[t].pool = 1

\* A thread is about to create the pool that the other thread has created
C26_SecondCreation ==
    \E t \in Threads :
      /\ env.DB_USE_POOL
      /\ th[t].pc = "create_pool"
      /\ pools_made = 1 /\ _pool = 1

\* Two pools were made, and a connection of the first is in use while _pool
\* is the second
C26_TwoPools ==
    \E t \in Threads :
      /\ pools_made = 2 /\ _pool = 2
      /\ th[t].conn = "open" /\ th[t].pool = 1

\* C25: a connection obtained through get_conn is checked out only while
\* its block runs and is closed exactly once when the block is left, after a
\* block that worked and after one that raised; when no request is inside a
\* block no connection is checked out; and what the caller gets is the
\* block's own outcome, whether or not close raised.
C25_ClosedExactlyOnce ==
    /\ [](\A t \in Threads :
            /\ th[t].conn = "open" => th[t].pc \in { "execute", "exit" }
            /\ th[t].closes = (IF th[t].conn = "closed" THEN 1 ELSE 0)
            /\ (th[t].block # "none" /\ th[t].pc \in { "respond", "done" })
                 => th[t].conn = "closed")
    /\ [][\A t \in Threads :
            (th[t].pc = "exit" /\ th'[t] # th[t]) =>
              /\ th[t].conn = "open" /\ th[t].closes = 0
              /\ th'[t].conn = "closed" /\ th'[t].closes = 1
              /\ IF th[t].op = "readyz"
                 THEN th'[t].ping = (IF th[t].block = "ok" THEN "True" ELSE "False")
                 ELSE th'[t].status = (IF th[t].block = "ok" THEN 200 ELSE 500)]_vars

\* A search whose statement failed has answered 500 and its connection, taken
\* from the pool, is closed
C25_ClosedAfterFailure ==
    \E t \in Threads :
      /\ th[t].op = "search" /\ Answered(t) /\ th[t].status = 500
      /\ th[t].block = "raised"
      /\ th[t].pool # 0
      /\ th[t].conn = "closed" /\ th[t].closes = 1

\* A search that worked and a ping that failed inside its block have both
\* closed their connections
C25_ClosedAfterBoth ==
    \E t, u \in Threads :
      /\ th[t].op = "search" /\ th[t].block = "ok" /\ th[t].closes = 1
      /\ th[u].op = "readyz" /\ th[u].block = "raised" /\ th[u].closes = 1

\* C28: GET /readyz answers with a body that holds the service name and the
\* outcome of the database check, with the database up and with it down.
C28_ReadyzBody ==
    \A t \in Threads :
      (th[t].op = "readyz" /\ Answered(t)) =>
        /\ th[t].status = 200
        /\ th[t].body # <<>>
        /\ th[t].body[1].service = "skyvision-backend"
        /\ th[t].body[1].ok = (th[t].ping = "True")

\* readyz has answered 500 although ping returned True
C28_ReadyRaises ==
    \E t \in Threads :
      /\ th[t].op = "readyz" /\ Answered(t)
      /\ th[t].ping = "True" /\ db_up
      /\ th[t].status = 500 /\ th[t].body = <<>>

\* ping itself does not raise: whatever happens it returns, True after a
\* block in which SELECT 1 worked and False otherwise
C28_PingReturns ==
    \A t \in Threads :
      (th[t].op = "readyz" /\ th[t].pc \in { "respond", "done" }) =>
        /\ th[t].ping \in { "True", "False" }
        /\ th[t].ping = "True" <=> th[t].block = "ok"

(***************************************************************************)
(* utils/metrics.py: the latency store                                     *)
(***************************************************************************)

\* _MAX_SAMPLES is 500 in the source; the model keeps the deques short
_MAX_SAMPLES == 3

\* Samples recorded in one behaviour; a sample is named by its number
MaxCalls == 5

\* The deque of a label, empty when the label has none: _store.get(label, ())
StoreOf(label) == IF label \in DOMAIN _store THEN _store[label] ELSE <<>>

\* The last n elements of s
LastN(n, s) == SubSeq(s, Len(s) - n + 1, Len(s))

\* deque(maxlen=_MAX_SAMPLES).append: a full deque drops its oldest element.
\* The variant drops the newest instead.
deque_append_keeps_oldest(dq, x) ==
    IF Len(dq) < _MAX_SAMPLES THEN Append(dq, x) ELSE dq

deque_append(dq, x) ==
    IF Len(dq) < _MAX_SAMPLES THEN Append(dq, x) ELSE Append(Tail(dq), x)

\* with _lock: the lock is free.  The variant is a store without the lock.
CanAcquire_unlocked(lock) == TRUE

CanAcquire(lock) == lock = 0

\* sorted(dq)[i], counted from 0; samples are distinct
SortedAt(dq, i) ==
    CHOOSE x \in Range(dq) : Cardinality({ y \in Range(dq) : y < x }) = i

\* sum(arr)
SumOf(dq) ==
    LET S[i \in 0..Len(dq)] == IF i = 0 THEN 0 ELSE S[i - 1] + dq[i]
    IN  S[Len(dq)]

\* get_stats lines 25-37, avg kept as the fraction sum / count
get_stats(dq) ==
    IF dq = <<>>
    THEN [count |-> 0, avg |-> <<0, 1>>, p95 |-> 0, min |-> 0, max |-> 0]
    ELSE LET count == Len(dq)
             ceil95 == (95 * count + 99) \div 100
             p95_idx == IF ceil95 - 1 > 0 THEN ceil95 - 1 ELSE 0
         IN  [count |-> count,
              avg |-> <<SumOf(dq), count>>,
              p95 |-> SortedAt(dq, p95_idx),
              min |-> SortedAt(dq, 0),
              max |-> SortedAt(dq, count - 1)]

InCall(t, p) == mth[t].pc = p

NotMetrics == UNCHANGED <<queryVars, routerVars, serviceVars, planVars>>

\* record_latency(label, seconds) is called
record_latency(t) ==
    /\ InCall(t, "idle")
    /\ issued < MaxCalls
    /\ \E label \in Labels :
         mth' = [mth EXCEPT ![t] = [NoCall EXCEPT !.op = "record_latency", !.pc = "acquire",
                                                   !.label = label, !.sample = issued + 1]]
    /\ issued' = issued + 1
    /\ UNCHANGED <<_store, _lock, arrived>>
    /\ NotMetrics

\* time_block line 47: the block is entered
time_block(t) ==
    /\ InCall(t, "idle")
    /\ issued < MaxCalls
    /\ \E label \in Labels :
         mth' = [mth EXCEPT ![t] = [NoCall EXCEPT !.op = "time_block", !.pc = "body",
                                                   !.label = label, !.sample = issued + 1]]
    /\ issued' = issued + 1
    /\ UNCHANGED <<_store, _lock, arrived>>
    /\ NotMetrics

\* time_block lines 48-51: the block runs and returns or raises; the finally
\* clause calls record_latency either way
block_body(t) ==
    /\ InCall(t, "body")
    /\ \E raises \in BOOLEAN :
         mth' = [mth EXCEPT ![t].raised = raises, ![t].pc = "acquire"]
    /\ UNCHANGED <<_store, _lock, arrived, issued>>
    /\ NotMetrics

\* get_stats(label) is called
call_get_stats(t) ==
    /\ InCall(t, "idle")
    /\ \E label \in Labels :
         mth' = [mth EXCEPT ![t] = [NoCall EXCEPT !.op = "get_stats", !.pc = "acquire",
                                                   !.label = label]]
    /\ UNCHANGED <<_store, _lock, arrived, issued>>
    /\ NotMetrics

\* with _lock (lines 17 and 23).  The order in which the recording calls take
\* the lock is the order of arrival of their samples.
acquire(t) ==
    /\ InCall(t, "acquire")
    /\ CanAcquire(_lock)
    /\ _lock' = t
    /\ IF mth[t].op = "get_stats"
       THEN /\ mth' = [mth EXCEPT ![t].pc = "copy_begin"]
            /\ UNCHANGED arrived
       ELSE /\ mth' = [mth EXCEPT ![t].pc = "setdefault"]
            /\ arrived' = [arrived EXCEPT ![mth[t].label] = Append(@, mth[t].sample)]
    /\ UNCHANGED <<_store, issued>>
    /\ NotMetrics

\* record_latency line 18
setdefault(t) ==
    /\ InCall(t, "setdefault")
    /\ _store' = [l \in DOMAIN _store \cup { mth[t].label } |-> StoreOf(l)]
    /\ mth' = [mth EXCEPT ![t].pc = "append"]
    /\ UNCHANGED <<_lock, arrived, issued>>
    /\ NotMetrics

\* record_latency line 19
append(t) ==
    /\ InCall(t, "append")
    /\ _store' = [_store EXCEPT ![mth[t].label] = deque_append(@, mth[t].sample)]
    /\ mth' = [mth EXCEPT ![t].appends = @ + 1, ![t].pc = "release"]
    /\ UNCHANGED <<_lock, arrived, issued>>
    /\ NotMetrics

\* get_stats line 24: list(...) starts to iterate over the deque
copy_begin(t) ==
    /\ InCall(t, "copy_begin")
    /\ mth' = [mth EXCEPT ![t].dq = StoreOf(mth[t].label), ![t].pc = "copy_end"]
    /\ UNCHANGED <<_store, _lock, arrived, issued>>
    /\ NotMetrics

\* get_stats line 24: the iteration ends; a deque that was changed meanwhile
\* makes it raise RuntimeError
copy_end(t) ==
    /\ InCall(t, "copy_end")
    /\ mth' = [mth EXCEPT ![t].raised = (StoreOf(mth[t].label) # mth[t].dq),
                          ![t].pc = "release"]
    /\ UNCHANGED <<_store, _lock, arrived, issued>>
    /\ NotMetrics

\* The with block is left and the lock released
release(t) ==
    /\ InCall(t, "release")
    /\ _lock' = IF _lock = t THEN 0 ELSE _lock
    /\ mth' = [mth EXCEPT ![t].pc =
                 IF mth[t].op = "get_stats" /\ ~ mth[t].raised THEN "compute" ELSE "done"]
    /\ UNCHANGED <<_store, arrived, issued>>
    /\ NotMetrics

\* get_stats lines 25-37
compute(t) ==
    /\ InCall(t, "compute")
    /\ mth' = [mth EXCEPT ![t].stats = << get_stats(mth[t].dq) >>, ![t].pc = "done"]
    /\ UNCHANGED <<_store, _lock, arrived, issued>>
    /\ NotMetrics

\* The call returns, or what the block raised goes on to the caller
leave(t) ==
    /\ InCall(t, "done")
    /\ mth' = [mth EXCEPT ![t] = NoCall]
    /\ UNCHANGED <<_store, _lock, arrived, issued>>
    /\ NotMetrics

MetricsNext ==
    \E t \in Threads :
      \/ record_latency(t) \/ time_block(t) \/ block_body(t) \/ call_get_stats(t)
      \/ acquire(t) \/ setdefault(t) \/ append(t)
      \/ copy_begin(t) \/ copy_end(t) \/ release(t) \/ compute(t) \/ leave(t)

MetricsSpec == Init /\ [][MetricsNext]_vars

\* The samples of a label that have arrived and are in the store: all that
\* arrived, but for the one whose call holds the lock and has not appended
Recorded(label) ==
    IF \E t \in Threads : mth[t].label = label /\ mth[t].pc \in { "setdefault", "append" }
    THEN SubSeq(arrived[label], 1, Len(arrived[label]) - 1)
    ELSE arrived[label]

\* The most recent min(n, _MAX_SAMPLES) of the n samples s, in arrival order
MostRecent(s) == LastN(IF Len(s) < _MAX_SAMPLES THEN Len(s) ELSE _MAX_SAMPLES, s)

\* C27: under every interleaving of record_latency, time_block and get_stats
\* calls each label holds the most recent min(n, _MAX_SAMPLES) of its n
\* recorded samples in arrival order, none lost and none twice; the copy
\* get_stats works on is such a content of the store and get_stats does not
\* raise; a record_latency call and a time_block, also one whose block
\* raised, have recorded exactly one sample when they return.
C27_StoreBoundedAndConsistent ==
    /\ \A label \in Labels : StoreOf(label) = MostRecent(Recorded(label))
    /\ \A t \in Threads :
         /\ (mth[t].op = "get_stats" /\ mth[t].pc \in { "release", "compute", "done" }) =>
              /\ ~ mth[t].raised
              /\ \E n \in 0..Len(arrived[mth[t].label]) :
                   mth[t].dq = MostRecent(SubSeq(arrived[mth[t].label], 1, n))
         /\ (mth[t].op = "get_stats" /\ mth[t].pc = "done") =>
              /\ mth[t].stats # <<>>
              /\ mth[t].stats[1].count = Len(mth[t].dq)
         /\ (mth[t].op \in { "record_latency", "time_block" } /\ mth[t].pc = "done") =>
              /\ mth[t].appends = 1
              /\ Cardinality({ i \in DOMAIN arrived[mth[t].label] :
                                 arrived[mth[t].label][i] = mth[t].sample }) = 1
         /\ (mth[t].op \in { "record_latency", "time_block" }
               /\ mth[t].pc \in { "body", "acquire" }) => mth[t].appends = 0

\* A label got more samples than the deque holds and has the last ones, while
\* a time_block whose block raised has recorded its sample and returns
C27_Witness ==
    \E label \in Labels :
      /\ Len(arrived[label]) > _MAX_SAMPLES
      /\ StoreOf(label) = LastN(_MAX_SAMPLES, arrived[label])
      /\ \E t \in Threads :
           /\ mth[t].op = "time_block" /\ mth[t].raised /\ mth[t].pc = "done"
           /\ mth[t].appends = 1

\* The samples arrived in another order than the calls were made, and a
\* get_stats waits for the lock a recording call holds
C27_Contended ==
    \E label \in Labels : \E t, u \in Threads :
      /\ Len(arrived[label]) >= 2
      /\ arrived[label][1] > arrived[label][2]
      /\ mth[t].op = "get_stats" /\ mth[t].pc = "acquire"
      /\ mth[u].pc = "append" /\ _lock = u

(***************************************************************************)
(* Placeholders and parameters of a plan                                   *)
(***************************************************************************)

\* The place of a placeholder token's kind in the order of the parameters:
\* vector, country, city, style, keywords, region
KindRank(tok) ==
    CASE tok = "(embedding, VEC_FromText(?))" -> 1
      [] tok = "LOWER(country) = LOWER(?)" -> 2
      [] tok = "LOWER(city) = LOWER(?)" -> 3
      [] tok = "LOWER(JSON_VALUE(metadata, '$.style')) = LOWER(?)" -> 4
      [] tok = "LOWER(JSON_VALUE(metadata, '$.style')) LIKE LOWER(?)" -> 5
      [] tok = "LOWER(JSON_EXTRACT(metadata, '$.tags')) LIKE LOWER(?)" -> 5
      [] tok = "LOWER(country) LIKE LOWER(?)" -> 6

\* How many of the first n tokens of sql are the token tok
CountBefore(sql, tok, n) == Cardinality({ j \in 1 .. n : sql[j] = tok })

\* The value that belongs to the `?` of token i of the plan of request r with
\* keywords kws and region countries region
Belongs(r, sql, i, kws, region) ==
    LET tok == sql[i]
    IN  CASE KindRank(tok) = 1 -> Str(_vec_text(r.vec))
          [] KindRank(tok) = 2 -> r.filters[1].country
          [] KindRank(tok) = 3 -> r.filters[1].city
          [] KindRank(tok) = 4 -> r.filters[1].style
          [] tok = "LOWER(JSON_VALUE(metadata, '$.style')) LIKE LOWER(?)" ->
               Str(LikePattern(kws[CountBefore(sql, tok, i)]))
          [] tok = "LOWER(JSON_EXTRACT(metadata, '$.tags')) LIKE LOWER(?)" ->
               Str(LikePattern(kws[CountBefore(sql, tok, i)]))
          [] KindRank(tok) = 6 -> Str(region[CountBefore(sql, tok, i)])

\* The positions of the placeholder tokens of the plan
Placeholders == { i \in DOMAIN plan.sql : plan.sql[i] \in PlaceholderTokens }

\* C29: in the plan of search_airports_by_text and of
\* search_airlines_by_image there are as many parameters as `?`, the i-th
\* parameter is the value that belongs to the i-th `?` of the text, and the
\* `?` stand in the order vector, country, city, style, the two patterns of
\* each keyword, the countries of the region.
C29_ParametersMatchPlaceholders ==
    req.fn # "none" =>
      LET q_text == Lower(Strip(OrEmpty(req.query_text)))
          kws    == _extract_keywords(q_text)
          region == _detect_region(q_text)
      IN  /\ Len(plan.params) = Cardinality(Placeholders)
          /\ \A i \in Placeholders :
               ParamAt(plan.sql, plan.params, i) = Belongs(req, plan.sql, i, kws, region)
          /\ \A i, j \in Placeholders :
               i < j => KindRank(plan.sql[i]) <= KindRank(plan.sql[j])
          /\ CountBefore(plan.sql, "(embedding, VEC_FromText(?))", Len(plan.sql)) <= 1

\* An airports plan with the vector, the three attribute filters, a keyword
\* and a region
C29_Witness ==
    /\ Airports /\ Built
    /\ { KindRank(plan.sql[i]) : i \in Placeholders } = 1..6

\* An airlines plan with the vector and filter values
C29_Airlines ==
    /\ req.fn = "search_airlines_by_image" /\ Built
    /\ Len(plan.params) >= 3

\* A region search: no vector among the parameters
C29_RegionOnly ==
    /\ Airports /\ Built
    /\ { KindRank(plan.sql[i]) : i \in Placeholders } = { 2, 6 }

(***************************************************************************)
(* Calls of search_airports_by_text side by side: each call builds its     *)
(* statement line by line in its own local variables, and the lines of two *)
(* calls interleave in every order.                                        *)
(***************************************************************************)

\* The arguments of the calls
PlanTexts ==
    { <<"w","o","o","d">>,
      <<"a","r","t">>,
      <<"a","s","i","a">>,
      <<"j","a","p","a","n">>,
      <<"a","r","t","-","k","o","r","e","a">> }

PlanFilters ==
    { <<>>,
      << [country |-> Str(<<"I","n","d","i","a">>), has_image |-> Bool(TRUE)] >>,
      << [country |-> Str(<<"P","e","r","u">>), has_image |-> Bool(TRUE),
          continent |-> Str(<<"a","s","i","a">>)] >> }

\* The local variables of call s.  The variant has one params list that all
\* calls share (a list made once, at module level or as a default argument):
\* call 2 appends to the list of call 1.
Local_shared_params(all, s) == [all[s] EXCEPT !.params = all[1].params]

Local(all, s) == all[s]

\* ORDER BY and LIMIT of the call (lines 169-184).  The variant writes the k
\* of the request into the text.
OrderOf_limit_k(b) ==
    AirportsOrder_without_limit(IsRegionSearch(b.region_countries, b.keywords))
      \o << IF b.req.k = 1 THEN "LIMIT 1" ELSE "LIMIT 10000" >>

OrderOf(b) == AirportsOrder(IsRegionSearch(b.region_countries, b.keywords))

Building(s, p) == builders[s].pc = p

NotPlan == UNCHANGED <<queryVars, routerVars, serviceVars, metricsVars>>

\* Lines 121-127: the call is made and the query text analysed
plan_analyse(s) ==
    /\ Building(s, "idle")
    /\ \E vec \in QueryVectors, k \in Ks, filters \in PlanFilters, query_text \in PlanTexts :
         LET q_text == Lower(Strip(OrEmpty(query_text)))
         IN  builders' = [builders EXCEPT ![s] =
               [NoBuilder EXCEPT
                  !.pc = "select",
                  !.req = [fn |-> "search_airports_by_text", vec |-> vec, k |-> k,
                           filters |-> filters, query_text |-> query_text],
                  !.keywords = _extract_keywords(q_text),
                  !.region_countries = _detect_region(q_text)]]
    /\ NotPlan

\* Lines 129-146: sql and params are set
plan_select(s) ==
    /\ Building(s, "select")
    /\ LET b == Local(builders, s)
           selected == AirportsSelect(IsRegionSearch(b.region_countries, b.keywords), b.req.vec)
       IN  builders' = [builders EXCEPT ![s].sql = selected.sql,
                                        ![s].params = selected.params,
                                        ![s].pc = "filters"]
    /\ NotPlan

\* Line 149
plan_filters(s) ==
    /\ Building(s, "filters")
    /\ LET b == Local(builders, s)
           filtered == _apply_filters(b.sql, b.req.filters, b.params)
       IN  builders' = [builders EXCEPT ![s].sql = filtered.sql,
                                        ![s].params = filtered.params,
                                        ![s].pc = "keywords"]
    /\ NotPlan

\* Lines 152-157
plan_keywords(s) ==
    /\ Building(s, "keywords")
    /\ LET b == Local(builders, s)
           withKw == ApplyKeywords([sql |-> b.sql, params |-> b.params], b.keywords)
       IN  builders' = [builders EXCEPT ![s].sql = withKw.sql,
                                        ![s].params = withKw.params,
                                        ![s].pc = "region"]
    /\ NotPlan

\* Lines 160-166
plan_region(s) ==
    /\ Building(s, "region")
    /\ LET b == Local(builders, s)
           withReg == ApplyRegion([sql |-> b.sql, params |-> b.params], b.region_countries)
       IN  builders' = [builders EXCEPT ![s].sql = withReg.sql,
                                        ![s].params = withReg.params,
                                        ![s].pc = "order"]
    /\ NotPlan

\* Lines 169-184: the statement is complete
plan_order(s) ==
    /\ Building(s, "order")
    /\ LET b == Local(builders, s)
       IN  builders' = [builders EXCEPT ![s].sql = b.sql \o OrderOf(b),
                                        ![s].params = b.params,
                                        ![s].pc = "built"]
    /\ NotPlan

\* Lines 188-192: the statement goes to the cursor and the call returns
plan_return(s) ==
    /\ Building(s, "built")
    /\ builders' = [builders EXCEPT ![s] = NoBuilder]
    /\ NotPlan

PlanNext ==
    \E s \in Threads :
      \/ plan_analyse(s) \/ plan_select(s) \/ plan_filters(s) \/ plan_keywords(s)
      \/ plan_region(s) \/ plan_order(s) \/ plan_return(s)

PlanSpec == Init /\ [][PlanNext]_vars

\* The statement of call s is complete
PlanBuilt(s) == builders[s].pc = "built"

\* C24: the plan a call has built is the plan the same request gets when it
\* runs alone, whatever the other call did meanwhile; two calls with the
\* same query text, filters and vector have the same SQL text and the same
\* parameters.
C24_PlanDeterministic ==
    /\ \A s \in Threads :
         PlanBuilt(s) =>
           LET r == builders[s].req
               alone == AirportsStatement(r.vec, r.k, r.filters, r.query_text)
           IN  /\ builders[s].sql = alone.sql
               /\ builders[s].params = alone.params
    /\ \A s, u \in Threads :
         ( /\ PlanBuilt(s) /\ PlanBuilt(u)
           /\ builders[s].req.query_text = builders[u].req.query_text
           /\ builders[s].req.filters = builders[u].req.filters
           /\ builders[s].req.vec = builders[u].req.vec )
         => /\ builders[s].sql = builders[u].sql
            /\ builders[s].params = builders[u].params

\* Call 2 has built its plan, with a filter, a keyword and a region, while
\* call 1, with other arguments, is in the middle of building its own
C24_Witness ==
    /\ PlanBuilt(2)
    /\ Len(builders[2].params) >= 5
    /\ builders[1].pc = "keywords"
    /\ builders[1].params # <<>>
    /\ builders[1].req # builders[2].req

\* Both calls have built the plan of the same query text, filters and vector
C24_SameArguments ==
    /\ PlanBuilt(1) /\ PlanBuilt(2)
    /\ builders[1].req.query_text = builders[2].req.query_text
    /\ builders[1].req.filters = builders[2].req.filters
    /\ builders[1].req.vec = builders[2].req.vec
    /\ builders[1].req.k # builders[2].req.k
    /\ builders[1].params # <<>>

\* The recognized filters that are set
FiltersSet(filters) ==
    IF NotFilters(filters) THEN {}
    ELSE { key \in { "country", "city", "style", "has_image", "has_logo" } :
             PyTruthy(Get(filters[1], key)) }

\* What the text of the statement depends on: the mode, the recognized
\* filters that are set, the number of keywords, the detected region
Shape(b) ==
    [mode |-> IsRegionSearch(b.region_countries, b.keywords),
     filters |-> FiltersSet(b.req.filters),
     keywords |-> Len(b.keywords),
     region |-> b.region_countries]

\* The pieces of text the statements are made of, all literals of queries.py
\* but for the configured distance function
StaticTokens ==
    { "SELECT id, name, city, country, image_url, metadata,", "0.0 AS distance",
      "FROM airports", VECTOR_DISTANCE_FN, "(embedding, VEC_FromText(?))", "AS distance",
      "WHERE", "AND", "OR", "(", ")",
      "LOWER(country) = LOWER(?)", "LOWER(city) = LOWER(?)",
      "LOWER(JSON_VALUE(metadata, '$.style')) = LOWER(?)",
      "(image_url IS NOT NULL AND image_url <> '')",
      "(logo_url IS NOT NULL AND logo_url <> '')",
      "LOWER(JSON_VALUE(metadata, '$.style')) LIKE LOWER(?)",
      "LOWER(JSON_EXTRACT(metadata, '$.tags')) LIKE LOWER(?)",
      "LOWER(country) LIKE LOWER(?)",
      "ORDER BY", "(image_url IS NULL OR image_url='') ASC", ",", "name ASC",
      "distance ASC", "LIMIT 1000" }

\* C30: two requests that agree on the mode, on the recognized filters that
\* are set, on the number of keywords and on the detected region have the
\* same SQL text, whatever their query text, filter values, vector and k
\* are; the text is made of fixed pieces only.
C30_ValuesOnlyAsParameters ==
    /\ \A s, u \in Threads :
         (PlanBuilt(s) /\ PlanBuilt(u) /\ Shape(builders[s]) = Shape(builders[u]))
           => builders[s].sql = builders[u].sql
    /\ \A s \in Threads : Range(builders[s].sql) \subseteq StaticTokens

\* Two plans with the same text for requests whose query text, filter value,
\* vector and k all differ; the values are among the parameters
C30_Witness ==
    /\ PlanBuilt(1) /\ PlanBuilt(2)
    /\ builders[1].req.query_text # builders[2].req.query_text
    /\ builders[1].req.vec # builders[2].req.vec
    /\ builders[1].req.k # builders[2].req.k
    /\ builders[1].req.filters # <<>> /\ builders[2].req.filters # <<>>
    /\ builders[1].req.filters # builders[2].req.filters
    /\ builders[1].keywords # <<>>
    /\ builders[1].sql = builders[2].sql
    /\ builders[1].params # builders[2].params
    /\ builders[1].req.filters[1].country \in Range(builders[1].params)
    /\ Str(LikePattern(builders[1].keywords[1])) \in Range(builders[1].params)

\* Two region searches with the same text for different query texts that
\* name the same region
C30_SameRegion ==
    /\ PlanBuilt(1) /\ PlanBuilt(2)
    /\ builders[1].req.query_text # builders[2].req.query_text
    /\ Truthy(builders[1].region_countries)
    /\ Shape(builders[1]) = Shape(builders[2])
    /\ builders[1].sql = builders[2].sql

====
